---- MODULE Spec2Model ----
(***************************************************************************)
(* The legacy-to-modern source transformer of docusaurus-migrate           *)
(* (src/docs/packages/docusaurus-migrate/src/transform.ts, lines 1-216).   *)
(*                                                                         *)
(* One invocation of transformer(file) is a straight-line computation: the *)
(* text is parsed to a tree, the require-based declarators are collected,  *)
(* each is classified and possibly replaced, the Layout import is          *)
(* inserted, the export assignments are found, filtered and replaced, and  *)
(* the tree is printed.  The model keeps the syntax tree (ESTree node      *)
(* records, as the parser jscodeshift uses by default produces them) and   *)
(* steps through that computation; a second invocation on the first one's  *)
(* output follows (Spec).  SpecCalls runs several invocations, on any      *)
(* documents, one after the other in one process; FairCalls adds that a    *)
(* statement that can run does run.                                        *)
(*                                                                         *)
(* Strings are sequences of lexemes ("..", "/", "core", ...): includes()   *)
(* and match() of a fixed word are the contiguous-subsequence test.        *)
(* A path is the sequence of steps from the Program node to a statement:   *)
(* a step [field, idx] enters element idx of the list held in `field`      *)
(* (idx >= 1) or the single child held in `field` (idx = 0).               *)
(* Variable declarations of the documents are members of statement lists.  *)
(***************************************************************************)
EXTENDS Naturals, Sequences, FiniteSets, TLC

VARIABLES
  file,      \* the document transformer was called with (parsed form)
  root,      \* the tree the invocation works on
  r,         \* the list getImportDeclaratorPaths returned
  i,         \* position of the forEach over r
  found,     \* the export assignments that passed the filter
  j,         \* position of the forEach over found
  pc,        \* the statement of transformer that runs next
  err,       \* the error an invocation ended with ("" while none)
  run,       \* number of the invocation (in Spec, 2: on the first one's output)
  replaced,  \* positions in r whose declarator was replaced (replaceWith calls)
  inserted,  \* number of insertAfter calls of this invocation
  site,      \* path of the statement the import was inserted after (<<>>: none)
  first,     \* summary of the first invocation, kept for the second
  returned,  \* what the invocations so far were called with and returned
  replaceCalls, \* number of replaceWith calls of the forEach over r
  instances, \* the nodes this invocation built: the slot each is put in and
             \* the builder call that made it
  cliPc,     \* init (create-docusaurus): the statement that runs next
  reqName,   \* init: the site name given on the command line, or undefined
  rootDirs,  \* init: the names that exist in rootDir
  siteName,  \* init: what getSiteName returned
  destFiles, \* init: the files of dest, name to content
  before,    \* init: the files of dest when the gitignore step began
  chosenSource, \* init: what getSource returned
  pm,        \* init: the call of getPackageManager, arguments and outcome
  cliErr,    \* init: the error init ended with ("" while none)
  pluginPc,  \* MyPlugin: the statement that runs next
  settings,  \* MyPlugin: this.settings
  client,    \* MyPlugin: this.client
  env,       \* MyPlugin: process.env, and whether a Client class is in scope
  stored,    \* MyPlugin: what loadData() resolves to
  notices,   \* MyPlugin: the Notices shown
  defaults,  \* MyPlugin: the object DEFAULT_SETTINGS
  aliased,   \* MyPlugin: settings.database is DEFAULT_SETTINGS.database
  token,     \* MyPlugin: loadSettings' local `token`
  currentOptions, \* MyPlugin: loadSettings' local `currentOptions`
  complete,  \* MyPlugin: the settings line 150 logged
  pluginErr  \* MyPlugin: the error onload rejected with ("" while none)

transformerVars ==
  <<file, root, r, i, found, j, pc, err, run, replaced, inserted, site,
    first, returned, replaceCalls, instances>>

cliVars ==
  <<cliPc, reqName, rootDirs, siteName, chosenSource, destFiles, before, pm, cliErr>>

pluginVars ==
  <<pluginPc, settings, client, env, stored, notices, defaults, aliased, token,
    currentOptions, complete, pluginErr>>

vars == <<transformerVars, cliVars, pluginVars>>

-----------------------------------------------------------------------------
(* Bounds *)

MaxStmts == 2

\* invocations of transformer in one process
MaxCalls == 3

\* the Notices followed
MaxNotices == 2

-----------------------------------------------------------------------------
(* Strings *)

\* s.includes(w), and s.match(/w/) for a regular expression that is a plain word
includes(s, w) ==
  \E k \in 0..(Len(s) - Len(w)) : SubSeq(s, k + 1, k + Len(w)) = w

RECURSIVE join(_)
\* quasis.map(e => e.value.raw).join('')
join(parts) ==
  IF parts = <<>> THEN <<>> ELSE Head(parts) \o join(Tail(parts))

COMP_LIBRARY == <<"..", "/", "..", "/", "core", "/", "CompLibrary">>
COMP_LIBRARY_JS == <<"..", "/", "..", "/", "core", "/", "CompLibrary", ".js">>
CORE_PATTERN == <<"/", "core", "/">>
SERVER_PATTERN == <<"server">>

-----------------------------------------------------------------------------
(* Node builders (jscodeshift.<builder>) *)

NullNode == [type |-> "null"]

identifier(name) == [type |-> "Identifier", name |-> name]

jsxIdentifier(name) == [type |-> "JSXIdentifier", name |-> name]

jsxSpreadAttribute(argument) ==
  [type |-> "JSXSpreadAttribute", argument |-> argument]

jsxOpeningElement(name, attributes, selfClosing) ==
  [type |-> "JSXOpeningElement", name |-> name, attributes |-> attributes,
   selfClosing |-> selfClosing]

jsxClosingElement(name) == [type |-> "JSXClosingElement", name |-> name]

jsxElement(openingElement, closingElement, children) ==
  [type |-> "JSXElement", openingElement |-> openingElement,
   closingElement |-> closingElement, children |-> children]

arrowFunctionExpression(params, body) ==
  [type |-> "ArrowFunctionExpression", params |-> params, body |-> body]

objectProperty(key, value) ==
  [type |-> "ObjectProperty", key |-> key, value |-> value]

objectExpression(properties) ==
  [type |-> "ObjectExpression", properties |-> properties]

variableDeclarator(id, init) ==
  [type |-> "VariableDeclarator", id |-> id, init |-> init]

literal(value) == [type |-> "Literal", jstype |-> "string", value |-> value]

importDefaultSpecifier(local) ==
  [type |-> "ImportDefaultSpecifier", local |-> local]

importDeclaration(specifiers, source) ==
  [type |-> "ImportDeclaration", specifiers |-> specifiers, source |-> source,
   comments |-> <<>>]

exportDeclaration(default, declaration) ==
  [type |-> "ExportDeclaration", default |-> default,
   declaration |-> declaration, comments |-> <<>>]

\* const empty = () => props => <div {...props}></div>
empty ==
  arrowFunctionExpression(
    <<identifier("props")>>,
    jsxElement(
      jsxOpeningElement(jsxIdentifier("div"),
                        <<jsxSpreadAttribute(identifier("props"))>>, FALSE),
      jsxClosingElement(jsxIdentifier("div")),
      <<>>))

property(key, value) == objectProperty(identifier(key), value)

-----------------------------------------------------------------------------
(* Parsed source: the node shapes the documents are made of *)

numberLiteral == [type |-> "Literal", jstype |-> "number", value |-> <<"42">>]

callExpression(callee, arguments) ==
  [type |-> "CallExpression", callee |-> callee, arguments |-> arguments]

newExpression(callee, arguments) ==
  [type |-> "NewExpression", callee |-> callee, arguments |-> arguments]

\* object.prop
memberExpression(object, prop) ==
  [type |-> "MemberExpression", object |-> object, property |-> prop,
   computed |-> FALSE]

\* object[prop]
computedMemberExpression(object, prop) ==
  [type |-> "MemberExpression", object |-> object, property |-> prop,
   computed |-> TRUE]

templateLiteral(quasis) == [type |-> "TemplateLiteral", quasis |-> quasis]

assignmentExpression(operator, left, right) ==
  [type |-> "AssignmentExpression", operator |-> operator, left |-> left,
   right |-> right]

variableDeclaration(declarations) ==
  [type |-> "VariableDeclaration", declarations |-> declarations,
   comments |-> <<>>]

expressionStatement(expression, comments) ==
  [type |-> "ExpressionStatement", expression |-> expression,
   comments |-> comments]

blockStatement(body) == [type |-> "BlockStatement", body |-> body]

functionDeclaration(body) ==
  [type |-> "FunctionDeclaration", id |-> identifier("f"), body |-> body]

ifStatement(consequent) ==
  [type |-> "IfStatement", test |-> identifier("c"), consequent |-> consequent]

program(body) == [type |-> "Program", body |-> body]

-----------------------------------------------------------------------------
(* Tree access: paths, replace, insertAfter, traversal *)

step(field, idx) == [field |-> field, idx |-> idx]

\* the child a step leads to
child(n, s) == IF s.idx > 0 THEN n[s.field][s.idx] ELSE n[s.field]

RECURSIVE nodeAt(_, _)
nodeAt(n, p) == IF p = <<>> THEN n ELSE nodeAt(child(n, Head(p)), Tail(p))

setChild(n, s, c) ==
  IF s.idx > 0
    THEN [n EXCEPT ![s.field] = [n[s.field] EXCEPT ![s.idx] = c]]
    ELSE [n EXCEPT ![s.field] = c]

RECURSIVE replaceAt(_, _, _)
\* jscodeshift(path).replaceWith(node): the node at p becomes `new`
replaceAt(n, p, new) ==
  IF p = <<>> THEN new
  ELSE setChild(n, Head(p), replaceAt(child(n, Head(p)), Tail(p), new))

\* insertAfter putting the new statement after the top-level statement the
\* node at p is in
insertAfterTopLevel(n, p, new) ==
  [n EXCEPT !.body = SubSeq(n.body, 1, p[1].idx) \o <<new>>
                       \o SubSeq(n.body, p[1].idx + 1, Len(n.body))]

RECURSIVE insertAfterAt(_, _, _)
\* jscodeshift(path).insertAfter(node): `new` becomes the next element of the
\* list that holds the node at p
insertAfterAt(n, p, new) ==
  LET s == Head(p)
  IN IF Len(p) = 1
       THEN [n EXCEPT ![s.field] =
               SubSeq(n[s.field], 1, s.idx) \o <<new>>
                 \o SubSeq(n[s.field], s.idx + 1, Len(n[s.field]))]
       ELSE setChild(n, s, insertAfterAt(child(n, s), Tail(p), new))

\* path.name: the index in the holding list, or the field of a single child
name(p) ==
  IF p = <<>> THEN "<root>"
  ELSE IF p[Len(p)].idx > 0 THEN "<index>" ELSE p[Len(p)].field

front(p) == SubSeq(p, 1, Len(p) - 1)

\* path.parentPath.name of a statement path: the path of the holding list
\* (named by its field) when the statement is a list element, the path of
\* the parent node otherwise
parentPathName(p) ==
  IF p[Len(p)].idx > 0 THEN p[Len(p)].field ELSE name(front(p))

RECURSIVE statementPaths(_, _), listPaths(_, _, _, _)
\* the paths of the statements below n, in traversal (document) order
statementPaths(n, prefix) ==
  IF n.type \in {"Program", "BlockStatement"}
    THEN listPaths(n.body, "body", prefix, 1)
  ELSE IF n.type = "FunctionDeclaration"
    THEN LET q == Append(prefix, step("body", 0))
         IN <<q>> \o statementPaths(n.body, q)
  ELSE IF n.type = "IfStatement"
    THEN LET q == Append(prefix, step("consequent", 0))
         IN <<q>> \o statementPaths(n.consequent, q)
  ELSE <<>>

listPaths(list, field, prefix, k) ==
  IF k > Len(list) THEN <<>>
  ELSE LET q == Append(prefix, step(field, k))
       IN <<q>> \o statementPaths(list[k], q)
            \o listPaths(list, field, prefix, k + 1)

RECURSIVE flatten(_)
flatten(ss) == IF ss = <<>> THEN <<>> ELSE Head(ss) \o flatten(Tail(ss))

\* a declarator path: the declaration statement and the position in it
declaratorPaths(n) ==
  LET stmts == statementPaths(n, <<>>)
      of(q) == IF nodeAt(n, q).type = "VariableDeclaration"
                 THEN [k \in 1..Len(nodeAt(n, q).declarations) |->
                         [stmt |-> q, decl |-> k]]
                 ELSE <<>>
  IN flatten([x \in 1..Len(stmts) |-> of(stmts[x])])

declaratorAt(n, d) == nodeAt(n, d.stmt).declarations[d.decl]

\* replaceDeclarator with insertAfter in place of replaceWith: the old
\* declarator stays, the new one follows it
replaceDeclaratorKeepsOld(n, d, new) ==
  LET decls == nodeAt(n, d.stmt).declarations
  IN replaceAt(n, d.stmt,
               [nodeAt(n, d.stmt) EXCEPT !.declarations =
                  SubSeq(decls, 1, d.decl) \o <<new>>
                    \o SubSeq(decls, d.decl + 1, Len(decls))])

\* replaceDeclarator putting the new declarator first in the declaration,
\* wherever the old one stood
replaceDeclaratorFirst(n, d, new) ==
  replaceAt(n, d.stmt,
            [nodeAt(n, d.stmt) EXCEPT !.declarations[1] = new])

\* replaceDeclarator replacing the whole declaration by the new declarator
replaceDeclaratorAlone(n, d, new) ==
  replaceAt(n, d.stmt,
            [nodeAt(n, d.stmt) EXCEPT !.declarations = <<new>>])

\* jscodeshift(node).replaceWith(newDeclarator)
replaceDeclarator(n, d, new) ==
  replaceAt(n, d.stmt,
            [nodeAt(n, d.stmt) EXCEPT !.declarations[d.decl] = new])

-----------------------------------------------------------------------------
(* transform.ts: the classifier and the declarator rewriter *)

UNDEFINED == [type |-> "undefined"]

\* arguments[0]
firstArgument(call) ==
  IF Len(call.arguments) > 0 THEN call.arguments[1] ELSE UNDEFINED

\* the three-stub object both shared-library rules build
stubObject ==
  objectExpression(<<property("Container", empty),
                     property("GridBlock", empty),
                     property("MarkdownBlock", empty)>>)

\* what a process* call did to its declarator: the declarator afterwards, the
\* number of replaceWith calls, and whether it ended by throwing
outcome(node, replacements, threw) ==
  [node |-> node, replacements |-> replacements, threw |-> threw]

\* the template-literal rule shared by both forms: the raw texts of the
\* quasis, joined, match /\/core\//
\* templateMatchesCore testing the quasis one by one, never their joined text
someQuasiMatchesCore(args) ==
  /\ args.type = "TemplateLiteral"
  /\ \E k \in 1..Len(args.quasis) : includes(args.quasis[k], CORE_PATTERN)

templateMatchesCore(args) ==
  /\ args.type = "TemplateLiteral"
  /\ includes(join(args.quasis), CORE_PATTERN)

\* sharedLibraryCall with === in place of includes
sharedLibraryCallExact(args) ==
  /\ args.type = "Literal"
  /\ args.jstype = "string"
  /\ args.value = COMP_LIBRARY

\* sharedLibraryCall with the server rule of the member form added
sharedLibraryOrServerCall(args) ==
  /\ args.type = "Literal"
  /\ args.jstype = "string"
  /\ \/ includes(args.value, COMP_LIBRARY)
     \/ includes(args.value, SERVER_PATTERN)

\* args.type === 'Literal' && typeof args.value === 'string' &&
\* args.value.includes('../../core/CompLibrary')
sharedLibraryCall(args) ==
  /\ args.type = "Literal"
  /\ args.jstype = "string"
  /\ includes(args.value, COMP_LIBRARY)

\* the two rules of processCallExpression, args being defined
rewriteCall(node, args) ==
  LET lib  == sharedLibraryCall(args)
      core == templateMatchesCore(args)
  IN outcome(IF core THEN variableDeclarator(node.id, empty)
             ELSE IF lib THEN variableDeclarator(node.id, stubObject)
             ELSE node,
             (IF lib THEN 1 ELSE 0) + (IF core THEN 1 ELSE 0),
             FALSE)

\* processCallExpression without `if (!args) return`: args.type of an absent
\* argument is a TypeError
processCallExpressionUnguarded(node) ==
  LET args == firstArgument(node.init)
  IN IF args = UNDEFINED THEN outcome(node, 0, TRUE)
     ELSE rewriteCall(node, args)

processCallExpression(node) ==
  LET args == firstArgument(node.init)
  IN IF args = UNDEFINED THEN outcome(node, 0, FALSE)
     ELSE rewriteCall(node, args)

\* sharedLibraryMember comparing with the path without its extension
sharedLibraryMemberNoExtension(args) ==
  /\ args.type = "Literal"
  /\ args.jstype = "string"
  /\ args.value = COMP_LIBRARY

\* sharedLibraryMember with the includes test of the direct form
sharedLibraryMemberIncludes(args) ==
  /\ args.type = "Literal"
  /\ args.jstype = "string"
  /\ includes(args.value, COMP_LIBRARY)

\* args.type === 'Literal' && args.value === '../../core/CompLibrary.js'
sharedLibraryMember(args) ==
  /\ args.type = "Literal"
  /\ args.jstype = "string"
  /\ args.value = COMP_LIBRARY_JS

serverMember(args) ==
  /\ args.type = "Literal"
  /\ ~sharedLibraryMember(args)
  /\ args.jstype = "string"
  /\ includes(args.value, SERVER_PATTERN)

processMemberExpression(node) ==
  LET object == node.init.object
  IN IF object.type # "CallExpression" THEN outcome(node, 0, FALSE)
     ELSE LET args == firstArgument(object)
          IN IF args = UNDEFINED THEN outcome(node, 0, FALSE)
             ELSE LET lib    == sharedLibraryMember(args)
                      server == serverMember(args)
                      core   == templateMatchesCore(args)
                  IN outcome(
                       IF core \/ server
                         THEN variableDeclarator(node.id, empty)
                       ELSE IF lib
                         THEN variableDeclarator(node.id, stubObject)
                       ELSE node,
                       (IF lib \/ server THEN 1 ELSE 0)
                         + (IF core THEN 1 ELSE 0),
                       FALSE)

\* the body of r.forEach
processCandidate(node) ==
  IF node.init.type = "CallExpression" THEN processCallExpression(node)
  ELSE IF node.init.type = "MemberExpression"
    THEN processMemberExpression(node)
  ELSE outcome(node, 0, FALSE)

-----------------------------------------------------------------------------
(* transform.ts: collecting the candidates *)

hasName(n, field, nm) ==
  /\ field \in DOMAIN n
  /\ "name" \in DOMAIN n[field]
  /\ n[field].name = nm

\* find(VariableDeclarator, {init: {callee: {name: 'require'}}})
matchesDefaultImport(d) == hasName(d.init, "callee", "require")

\* find(VariableDeclarator, {init: {object: {callee: {name: 'require'}}}})
matchesNamedImport(d) ==
  /\ "object" \in DOMAIN d.init
  /\ hasName(d.init.object, "callee", "require")

getDefaultImportDeclarations(rootAst) ==
  SelectSeq(declaratorPaths(rootAst),
            LAMBDA d : matchesDefaultImport(declaratorAt(rootAst, d)))

getNamedImportDeclarations(rootAst) ==
  SelectSeq(declaratorPaths(rootAst),
            LAMBDA d : matchesNamedImport(declaratorAt(rootAst, d)))

getImportDeclaratorPaths(rootAst) ==
  getDefaultImportDeclarations(rootAst) \o getNamedImportDeclarations(rootAst)

-----------------------------------------------------------------------------
(* transform.ts: the companion import and the export pass *)

layoutImport ==
  importDeclaration(<<importDefaultSpecifier(identifier("Layout"))>>,
                    literal(<<"@theme/Layout">>))

\* hasLastCandidate asking in addition that some candidate was rewritten
hasRewrittenCandidate(list) == Len(list) > 0 /\ replaced # {}

\* if (r[r.length - 1])
hasLastCandidate(list) == Len(list) > 0

\* the filter object handed to find(AssignmentExpression, ...)
matchesExportAssignment(e) ==
  /\ e.type = "AssignmentExpression"
  /\ e.operator = "="
  /\ e.left.type = "MemberExpression"
  /\ hasName(e.left, "object", "module")
  /\ hasName(e.left, "property", "exports")
  /\ e.right.type = "Identifier"

\* p.parentPath of the assignments find() returns, in document order: the
\* statement whose expression matches, or the assignment whose right side
\* matches (a = module.exports = Foo)
findExportAssignments(n) ==
  LET stmts == statementPaths(n, <<>>)
      of(q) ==
        LET s == nodeAt(n, q)
        IN IF s.type # "ExpressionStatement" THEN <<>>
           ELSE IF matchesExportAssignment(s.expression) THEN <<q>>
           ELSE IF /\ s.expression.type = "AssignmentExpression"
                   /\ matchesExportAssignment(s.expression.right)
             THEN <<Append(q, step("expression", 0))>>
           ELSE <<>>
  IN flatten([x \in 1..Len(stmts) |-> of(stmts[x])])

\* .filter((p) => p.parentPath.parentPath.name === 'body'), q being the path
\* of p.parentPath
passesBodyFilter(q) == parentPathName(q) = "body"

\* p.value, given p.parentPath.value
matched(parent) ==
  IF parent.type = "ExpressionStatement" THEN parent.expression
  ELSE parent.right

\* p.parentPath.value.comments
commentsOf(parent) ==
  IF "comments" \in DOMAIN parent THEN parent.comments ELSE <<>>

\* replaceWith that leaves the old node where it is and puts the new one
\* after it
replaceWithKeepsOld(n, p, new) == insertAfterAt(n, p, new)

\* jscodeshift(p.parentPath).replaceWith(exportDecl)
replaceWith(n, p, new) == replaceAt(n, p, new)

\* layoutExport without `exportDecl.comments = p.parentPath.value.comments`
layoutExportNoComments(stmt) ==
  exportDeclaration(
    TRUE,
    arrowFunctionExpression(
      <<identifier("props")>>,
      jsxElement(
        jsxOpeningElement(jsxIdentifier("Layout"), <<>>, FALSE),
        jsxClosingElement(jsxIdentifier("Layout")),
        <<jsxElement(
            jsxOpeningElement(
              jsxIdentifier(matched(stmt).right.name),
              <<jsxSpreadAttribute(identifier("props"))>>,
              TRUE),
            NullNode,
            <<>>)>>)))

\* exportDecl of the forEach, comments included
layoutExport(stmt) ==
  [exportDeclaration(
     TRUE,
     arrowFunctionExpression(
       <<identifier("props")>>,
       jsxElement(
         jsxOpeningElement(jsxIdentifier("Layout"), <<>>, FALSE),
         jsxClosingElement(jsxIdentifier("Layout")),
         <<jsxElement(
             jsxOpeningElement(
               jsxIdentifier(matched(stmt).right.name),
               <<jsxSpreadAttribute(identifier("props"))>>,
               TRUE),
             NullNode,
             <<>>)>>)))
   EXCEPT !.comments = commentsOf(stmt)]

-----------------------------------------------------------------------------
(* The documents transformer is run on *)

require(arguments) == callExpression(identifier("require"), arguments)

\* string arguments of require
StringArguments ==
  { COMP_LIBRARY,                                      \* '../../core/CompLibrary'
    COMP_LIBRARY_JS,                                   \* '../../core/CompLibrary.js'
    <<".", "/">> \o COMP_LIBRARY_JS,                   \* './../../core/CompLibrary.js'
    <<"..", "/", "core", "/", "Site", ".js">>,         \* '../core/Site.js'
    <<"..", "/", "server", "/", "env", ".js">>,        \* '../server/env.js'
    <<"..", "/", "server", "/">> \o COMP_LIBRARY_JS,   \* '../server/../../core/CompLibrary.js'
    <<"react">> }                                      \* 'react'

\* template-literal arguments of require, as the raw texts of their quasis
TemplateArguments ==
  { << <<>>, <<"/", "core", "/", "Site", ".js">> >>,   \* `${CWD}/core/Site.js`
    << <<"..", "/", "core">>, <<"/", "Site">> >>,      \* `../core${v}/Site`
    << <<>>, <<"/", "lib", "/", "core">>, <<>> >>,     \* `${CWD}/lib/core${x}`
    << COMP_LIBRARY >>,                                \* `../../core/CompLibrary`
    << <<>>, <<"/", "server", "/", "env", ".js">> >>,  \* `${CWD}/server/env.js`
    << <<"react">> >> }                                \* `react`

\* the argument lists of a require call
ArgumentLists ==
  { <<>>,                                              \* require()
    <<numberLiteral>>,                                 \* require(42)
    <<identifier("path")>>,                            \* require(path)
    <<callExpression(identifier("f"), <<>>)>> }        \* require(f())
  \cup { <<literal(v)>> : v \in StringArguments }
  \cup { <<templateLiteral(q)>> : q \in TemplateArguments }

\* X = require(..), X = require(..).default, X = new require(..)
CandidateDeclarators ==
  { variableDeclarator(identifier("X"), require(a)) : a \in ArgumentLists }
  \cup { variableDeclarator(
           identifier("X"),
           memberExpression(require(a), identifier("default")))
         : a \in ArgumentLists }
  \cup { variableDeclarator(
           identifier("X"),
           newExpression(identifier("require"), <<literal(COMP_LIBRARY)>>)) }

\* declarators whose initializer holds a require call without being one of
\* the two forms, or calls another function
OtherDeclarators ==
  LET lib == require(<<literal(COMP_LIBRARY_JS)>>)
  IN { variableDeclarator(                             \* X = require(..).a.b
         identifier("X"),
         memberExpression(memberExpression(lib, identifier("a")),
                          identifier("b"))),
       variableDeclarator(                             \* X = require(..)()
         identifier("X"), callExpression(lib, <<>>)),
       variableDeclarator(                             \* X = f(..)
         identifier("X"),
         callExpression(identifier("f"), <<literal(COMP_LIBRARY_JS)>>)),
       variableDeclarator(                             \* X = new require(..).a
         identifier("X"),
         memberExpression(
           newExpression(identifier("require"), <<literal(COMP_LIBRARY_JS)>>),
           identifier("a"))) }

callLibrary ==
  variableDeclarator(identifier("A"), require(<<literal(COMP_LIBRARY)>>))
callReact ==
  variableDeclarator(identifier("B"), require(<<literal(<<"react">>)>>))
memberServer ==
  variableDeclarator(
    identifier("C"),
    memberExpression(
      require(<<literal(<<"..", "/", "server", "/", "env", ".js">>)>>),
      identifier("default")))
memberReact ==
  variableDeclarator(
    identifier("D"),
    memberExpression(require(<<literal(<<"react">>)>>),
                     identifier("Component")))
plainValue == variableDeclarator(identifier("E"), numberLiteral)

moduleExports == memberExpression(identifier("module"), identifier("exports"))

\* module.exports = <right>;
exportAssignment(right, comments) ==
  expressionStatement(
    assignmentExpression(
      "=", moduleExports, right),
    comments)

exportsFoo == exportAssignment(identifier("Foo"), <<>>)

\* statements without statements inside
SimpleStatements ==
  { variableDeclaration(<<callLibrary>>),
    variableDeclaration(<<callReact>>),
    variableDeclaration(<<memberServer>>),
    variableDeclaration(<<memberReact>>),
    variableDeclaration(<<plainValue>>),
    variableDeclaration(<<memberReact, callLibrary>>),
    exportsFoo,
    exportAssignment(identifier("Bar"), <<"// the page">>),
    exportAssignment(callExpression(identifier("f"), <<>>), <<>>) }

\* statements that hold other statements: function f() {..}, if (c) {..},
\* if (c) <statement>, and a function holding a conditional
CompoundStatements ==
  { functionDeclaration(blockStatement(<<exportsFoo>>)),
    functionDeclaration(blockStatement(<<variableDeclaration(<<callLibrary>>)>>)),
    functionDeclaration(
      blockStatement(<<variableDeclaration(<<memberReact>>), exportsFoo>>)),
    ifStatement(blockStatement(<<exportsFoo>>)),
    ifStatement(exportsFoo),
    functionDeclaration(blockStatement(<<ifStatement(exportsFoo)>>)) }

Statements == SimpleStatements \cup CompoundStatements

\* a = module.exports = Foo;
chainedExport ==
  expressionStatement(
    assignmentExpression(
      "=", identifier("a"),
      assignmentExpression("=", moduleExports, identifier("Foo"))),
    <<>>)

\* assignment statements that are not `module.exports = <identifier>`
OtherAssignments ==
  { exportAssignment(objectExpression(<<>>), <<>>),   \* module.exports = {};
    exportAssignment(                                 \* module.exports = a.b;
      memberExpression(identifier("a"), identifier("b")), <<>>),
    expressionStatement(                              \* exports.x = Foo;
      assignmentExpression(
        "=", memberExpression(identifier("exports"), identifier("x")),
        identifier("Foo")),
      <<>>),
    expressionStatement(                              \* module.exports += Foo;
      assignmentExpression("+=", moduleExports, identifier("Foo")), <<>>),
    expressionStatement(                              \* module[exports] = Foo;
      assignmentExpression(
        "=",
        computedMemberExpression(identifier("module"), identifier("exports")),
        identifier("Foo")),
      <<>>),
    chainedExport }

RECURSIVE sequencesUpTo(_, _)
\* the sequences over S of length at most n
sequencesUpTo(S, n) ==
  IF n = 0 THEN {<<>>}
  ELSE LET shorter == sequencesUpTo(S, n - 1)
       IN shorter \cup {Append(q, x) : q \in shorter, x \in S}

\* every document of at most MaxStmts statements, every one-declaration
\* document over the require arguments, and the other assignments, alone and
\* before `module.exports = Foo`
Documents ==
  { program(b) : b \in sequencesUpTo(Statements, MaxStmts) }
  \cup { program(<<variableDeclaration(<<d>>)>>)
         : d \in CandidateDeclarators \cup OtherDeclarators }
  \cup { program(<<s>>) : s \in OtherAssignments }
  \cup { program(<<s, exportsFoo>>) : s \in OtherAssignments }
  \cup { program(<<ifStatement(chainedExport)>>) }

-----------------------------------------------------------------------------
(* create-docusaurus (transform.ts, lines 300-800): values and files *)

\* the value undefined, among string values
undefined == "undefined"

\* if (v), for a string or undefined
truthy(v) == v # undefined /\ v # ""

\* a ?? b
nullish(a, b) == IF a = undefined THEN b ELSE a

jsString(s) == [jstype |-> "string", value |-> s]
jsTrue == [jstype |-> "boolean", value |-> "true"]

\* the Promise an async function returns: an object, whatever it resolves to
promise(v) == [jstype |-> "object", value |-> v.value]

\* a directory without files
noFiles == [n \in {} |-> ""]

\* fs.pathExists(path.join(dir, n))
pathExists(files, n) == n \in DOMAIN files

\* fs.copy(source, dest): the files of the source, over those dest has
copy(source, dest) ==
  [n \in DOMAIN source \cup DOMAIN dest |->
     IF n \in DOMAIN source THEN source[n] ELSE dest[n]]

\* fs.remove(path.join(dir, n))
remove(files, n) == [m \in DOMAIN files \ {n} |-> files[m]]

\* fs.move(path.join(dir, from), path.join(dir, to)), `to` not existing
move(files, from, to) ==
  [m \in (DOMAIN files \ {from}) \cup {to} |->
     IF m = to THEN files[from] ELSE files[m]]

defaultPackageManager == "npm"

lockfileNames ==
  [npm |-> "package-lock.json", yarn |-> "yarn.lock", pnpm |-> "pnpm-lock.yaml"]

\* Object.keys(lockfileNames)
packageManagers == <<"npm", "yarn", "pnpm">>

includesName(list, v) == \E k \in 1..Len(list) : list[k] = v

RECURSIVE findFrom(_, _, _)
\* Array.prototype.find, and the for..of loop that returns at its first hit:
\* the first entry from index k on that is among `hits`
findFrom(list, hits, k) ==
  IF k > Len(list) THEN undefined
  ELSE IF list[k] \in hits THEN list[k]
  ELSE findFrom(list, hits, k + 1)

\* process.env.npm_config_user_agent: unset, or a text
noAgent == [set |-> FALSE, text |-> <<>>]
agent(text) == [set |-> TRUE, text |-> text]

\* the characters of a package manager's name
chars(packageManager) ==
  CASE packageManager = "npm" -> <<"n", "p", "m">>
    [] packageManager = "yarn" -> <<"y", "a", "r", "n">>
    [] packageManager = "pnpm" -> <<"p", "n", "p", "m">>

\* String.prototype.startsWith
startsWith(text, prefix) ==
  /\ Len(text) >= Len(prefix)
  /\ SubSeq(text, 1, Len(prefix)) = prefix

\* findPackageManagerFromLockFile(dir), dir holding `files`
findPackageManagerFromLockFile(files) ==
  LET hasLockFile(packageManager) ==
        pathExists(files, lockfileNames[packageManager])
  IN findFrom(packageManagers,
              {packageManager \in {"npm", "yarn", "pnpm"} :
                 hasLockFile(packageManager)}, 1)

findPackageManagerFromUserAgent(userAgent) ==
  LET agentOf(packageManager) ==
        userAgent.set /\ startsWith(userAgent.text, chars(packageManager))
  IN findFrom(packageManagers,
              {packageManager \in {"npm", "yarn", "pnpm"} :
                 agentOf(packageManager)}, 1)

\* the shell and the prompt as askForPackageManagerChoice finds them
noAsk == [hasYarn |-> FALSE, hasPnpm |-> FALSE, answer |-> undefined]

\* the choices the select prompt offers
choices(ask) ==
  {"npm"} \cup (IF ask.hasYarn THEN {"yarn"} ELSE {})
          \cup (IF ask.hasPnpm THEN {"pnpm"} ELSE {})

\* askForPackageManagerChoice(): the value, and whether prompts() ran
askForPackageManagerChoice(ask) ==
  IF ~ask.hasYarn /\ ~ask.hasPnpm
  THEN [value |-> "npm", prompted |-> FALSE]
  ELSE [value |-> nullish(ask.answer, defaultPackageManager), prompted |-> TRUE]

\* getPackageManager(dest, {packageManager, skipInstall}): dest and '.' hold
\* the files destDir and cwd. The outcome lists the directories whose
\* lockfiles were looked up.
getPackageManager(destDir, packageManager, skipInstall, cwd, userAgent, ask) ==
  LET fromDest == findPackageManagerFromLockFile(destDir)
      fromCwd == findPackageManagerFromLockFile(cwd)
      fromAgent == findPackageManagerFromUserAgent(userAgent)
      early == nullish(fromDest, nullish(packageManager,
                                         nullish(fromCwd, fromAgent)))
      asked == askForPackageManagerChoice(ask)
      call == [packageManager |-> packageManager, skipInstall |-> skipInstall,
               cwd |-> cwd, userAgent |-> userAgent, ask |-> ask]
  IN IF truthy(packageManager) /\ ~includesName(packageManagers, packageManager)
     THEN [call |-> call, error |-> "Invalid package manager choice",
           value |-> undefined, lookups |-> <<>>, asked |-> FALSE,
           prompted |-> FALSE]
     ELSE [call |-> call, error |-> "",
           value |-> IF early # undefined THEN early
                     ELSE IF skipInstall THEN defaultPackageManager
                     ELSE asked.value,
           lookups |-> IF nullish(fromDest, packageManager) # undefined
                       THEN <<"dest">> ELSE <<"dest", ".">>,
           asked |-> early = undefined /\ ~skipInstall,
           prompted |-> early = undefined /\ ~skipInstall /\ asked.prompted]

noCall ==
  [call |-> [packageManager |-> undefined, skipInstall |-> FALSE,
             cwd |-> noFiles, userAgent |-> noAgent, ask |-> noAsk],
   error |-> "", value |-> undefined, lookups |-> <<>>, asked |-> FALSE,
   prompted |-> FALSE]

\* a text as the pieces a prefix test tells apart; <<>> is no text, undefined
\* or empty
noText == <<>>

\* isValidGitRepoUrl(gitRepoUrl)
isValidGitRepoUrl(gitRepoUrl) ==
  \E item \in {"https://", "git@"} : startsWith(gitRepoUrl, <<item>>)

gitStrategies == <<"deep", "shallow", "copy", "custom">>

\* readTemplates(): name, and whether the TypeScript variant exists; classic
\* comes first
templates ==
  <<[name |-> "classic", tsVariantPath |-> TRUE],
    [name |-> "facebook", tsVariantPath |-> FALSE]>>

noTemplate == [name |-> undefined, tsVariantPath |-> FALSE]

\* templates.find((t) => t.name === reqTemplate)
findTemplate(reqTemplate) ==
  IF \E k \in 1..Len(templates) : <<templates[k].name>> = reqTemplate
  THEN templates[CHOOSE k \in 1..Len(templates) :
                   <<templates[k].name>> = reqTemplate]
  ELSE noTemplate

\* the template of a name the select prompt offers
templateNamed(n) ==
  templates[CHOOSE k \in 1..Len(templates) : templates[k].name = n]

noSource ==
  [error |-> "", logged |-> "", type |-> undefined, name |-> undefined,
   tsVariantPath |-> FALSE, strategy |-> undefined, typescript |-> FALSE]

exits(logged) ==
  [noSource EXCEPT !.error = "process.exit(1)", !.logged = logged]

gitSource(strategy) ==
  [noSource EXCEPT !.type = "git", !.strategy = strategy]

localSource == [noSource EXCEPT !.type = "local"]

templateSource(template, typescript) ==
  [noSource EXCEPT !.type = "template", !.name = template.name,
                   !.tsVariantPath = template.tsVariantPath,
                   !.typescript = typescript]

\* getSource(reqTemplate, templates, cliOptions): `paths` are the paths that
\* exist, `answers` what the prompts resolve to (undefined or no text where
\* one is cancelled); a prompt resolves only to what its choices and its
\* validate allow
getSource(reqTemplate, gitStrategy, typescript, paths, answers) ==
  IF reqTemplate # noText
  THEN IF isValidGitRepoUrl(reqTemplate)
       THEN IF truthy(gitStrategy) /\ ~includesName(gitStrategies, gitStrategy)
            THEN exits("Invalid git strategy")
            ELSE gitSource(nullish(gitStrategy, "deep"))
       ELSE IF reqTemplate \in paths THEN localSource
       ELSE LET template == findTemplate(reqTemplate)
            IN IF template = noTemplate THEN exits("Invalid template.")
               ELSE IF typescript /\ ~template.tsVariantPath
               THEN exits("Template doesn't provide the TypeScript variant.")
               ELSE templateSource(template, typescript)
  ELSE LET template == IF truthy(gitStrategy) THEN "Git repository"
                       ELSE answers.template
       IN IF template = undefined THEN exits("A choice is required.")
          ELSE IF template = "Git repository"
          THEN IF answers.gitRepoUrl = noText
               THEN exits("A git repo URL is required.")
               ELSE gitSource(nullish(IF truthy(gitStrategy) THEN gitStrategy
                                      ELSE answers.strategy, "deep"))
          ELSE IF template = "Local template"
          THEN IF answers.templateDir = noText
               THEN exits("A file path is required.")
               ELSE localSource
          ELSE LET t == templateNamed(template)
                   useTS == IF ~typescript /\ t.tsVariantPath
                            THEN answers.useTS = "true" ELSE typescript
               IN templateSource(t, useTS)

\* templates/shared, and what the base template holds beside the files init
\* looks at
sharedFiles == [n \in {"README.md"} |-> "shared"]
baseFiles == [n \in {"docusaurus.config.js", "custom.css", "index.js"} |-> "base"]

\* the filter of the first copy of a TypeScript variant (lines 436-439)
cssOrConfig(files) ==
  [n \in DOMAIN files \cap {"docusaurus.config.js", "custom.css"} |-> files[n]]

\* copyTemplate(template, dest, typescript): `files` is what the directory
\* copied last holds, template.path or its TypeScript variant. Where the
\* variant is asked for and the template has none, the last copy is of the
\* path undefined and rejects, after the earlier copies were made.
copyTemplate(template, files, dest, typescript) ==
  LET shared == copy(sharedFiles, dest)
      base == IF typescript THEN copy(cssOrConfig(baseFiles), shared) ELSE shared
  IN IF typescript /\ ~template.tsVariantPath
     THEN [error |-> "TypeError", files |-> base]
     ELSE [error |-> "", files |-> copy(files, base)]

\* what git clone leaves in an empty dest
clone(files) == copy([n \in {".git"} |-> "repository"], files)

\* validateSiteName(siteName), rootDir holding the names `dirs`
validateSiteName(name_, dirs) ==
  IF ~truthy(name_) THEN jsString("A website name is required.")
  ELSE IF name_ \in dirs THEN jsString("Directory already exists at path")
  ELSE jsTrue

\* getSiteName(reqName, rootDir); `answer` is what the prompt resolves to,
\* undefined when it is cancelled
getSiteName(name_, dirs, answer) ==
  IF truthy(name_)
  THEN LET res == promise(validateSiteName(name_, dirs))
       IN IF res.jstype = "string"
          THEN [error |-> res.value, value |-> undefined]
          ELSE [error |-> "", value |-> name_]
  ELSE IF answer = undefined
       THEN [error |-> "process.exit(1)", value |-> undefined]
       ELSE [error |-> "", value |-> answer]

\* the rename without the test for .gitignore
renameGitignoreAlways(files) ==
  IF pathExists(files, "gitignore")
  THEN move(files, "gitignore", ".gitignore")
  ELSE files

\* lines 781-786: gitignore becomes .gitignore where there is none
renameGitignore(files) ==
  IF ~pathExists(files, ".gitignore") /\ pathExists(files, "gitignore")
  THEN move(files, "gitignore", ".gitignore")
  ELSE files

\* lines 787-789
removeGitignore(files) ==
  IF pathExists(files, "gitignore") THEN remove(files, "gitignore") ELSE files

\* init is not running
cliIdle ==
  /\ cliPc = "idle"
  /\ reqName = undefined
  /\ rootDirs = {}
  /\ siteName = undefined
  /\ chosenSource = noSource
  /\ destFiles = noFiles
  /\ before = noFiles
  /\ pm = noCall
  /\ cliErr = ""

-----------------------------------------------------------------------------
(* MyPlugin (src/main.ts): settings, environment and stored data *)

\* a || b
or(a, b) == IF truthy(a) THEN a ELSE b

\* a field declared without initializer, never assigned
unset == [defined |-> FALSE]

noEnv ==
  [NOTION_TOKEN |-> undefined, NOTION_API_TOKEN |-> undefined,
   NOTION_DATABASE_LINK |-> undefined, Client |-> FALSE]

\* loadData() where nothing was saved
null == [json |-> "null", keys |-> {}]

\* what saveData(undefined) leaves
undefinedData == [json |-> "undefined", keys |-> {}]

\* the module evaluates DEFAULT_SETTINGS once, from the environment
DEFAULT_SETTINGS(e) ==
  [defined |-> TRUE,
   notionToken |-> or(e.NOTION_TOKEN, ""),
   database |-> [link |-> or(e.NOTION_DATABASE_LINK, ""), id |-> ""]]

\* Object.assign({}, defaults, data): the keys data has replace the defaults'
assign(d, data) ==
  [defined |-> TRUE,
   notionToken |-> IF "notionToken" \in data.keys
                   THEN data.notionToken ELSE d.notionToken,
   database |-> IF "database" \in data.keys
                THEN data.database ELSE d.database]

\* saveData(value): data.json holds the serialised value
saveData(value) ==
  IF value = unset THEN undefinedData
  ELSE [json |-> "object", keys |-> {"notionToken", "database"},
        notionToken |-> value.notionToken, database |-> value.database]

\* new Client({auth: token})
newClient(auth) == [defined |-> TRUE, auth |-> auth]

tokenFromPlugin == "Loading Notion API Token from plugin: "
tokenFromEnvironment == "Loading Notion API Token from environment: "
databaseVia == "Loading Database via: "

\* new Notice(text + value)
notice(text, value) == [text |-> text, value |-> value]

\* loadSettings(self) up to its await (lines 132-147), self.settings being
\* selfSettings: the error thrown ("" when none), the local token, this.client
\* and the Notices shown. The import of Client is commented out (line 12), so
\* the name is bound only where the host defines it.
loadSettings(selfSettings, selfClient, e) ==
  LET fails(error) ==
        [error |-> error, token |-> "", client |-> selfClient, notices |-> <<>>]
      withToken(t, text) ==
        IF ~e.Client
        THEN [error |-> "ReferenceError", token |-> t, client |-> selfClient,
              notices |-> <<notice(text, t)>>]
        ELSE [error |-> "", token |-> t, client |-> newClient(t),
              notices |-> <<notice(text, t)>>]
  IN IF selfSettings = unset THEN fails("TypeError")
     ELSE IF truthy(selfSettings.notionToken)
     THEN withToken(selfSettings.notionToken, tokenFromPlugin)
     ELSE IF truthy(e.NOTION_API_TOKEN)
     THEN withToken(e.NOTION_API_TOKEN, tokenFromEnvironment)
     ELSE fails("Notion API Token has not been loaded yet, please load token")

\* no plugin is loaded
pluginIdle ==
  /\ pluginPc = "idle"
  /\ settings = unset
  /\ client = unset
  /\ env = noEnv
  /\ stored = null
  /\ notices = <<>>
  /\ defaults = DEFAULT_SETTINGS(noEnv)
  /\ aliased = FALSE
  /\ token = ""
  /\ currentOptions = null
  /\ complete = unset
  /\ pluginErr = ""

-----------------------------------------------------------------------------
(* transformer(file), statement by statement *)

RECURSIVE reparse(_)
\* jscodeshift(root.toSource()): the printed text parses back to the same
\* statements, the node types only the builders make coming back as the
\* parser's own (ExportDeclaration as ExportDefaultDeclaration, ObjectProperty
\* as Property)
reparse(n) ==
  IF n.type \in {"Program", "BlockStatement"}
    THEN [n EXCEPT !.body = [k \in 1..Len(n.body) |-> reparse(n.body[k])]]
  ELSE IF n.type = "FunctionDeclaration"
    THEN [n EXCEPT !.body = reparse(n.body)]
  ELSE IF n.type = "IfStatement"
    THEN [n EXCEPT !.consequent = reparse(n.consequent)]
  ELSE IF n.type = "VariableDeclaration"
    THEN [n EXCEPT !.declarations =
            [k \in 1..Len(n.declarations) |->
               LET d == n.declarations[k]
               IN IF d.init.type = "ObjectExpression"
                    THEN [d EXCEPT !.init.properties =
                            [x \in 1..Len(d.init.properties) |->
                               [d.init.properties[x]
                                  EXCEPT !.type = "Property"]]]
                    ELSE d]]
  ELSE IF n.type = "ExportDeclaration"
    THEN [type |-> "ExportDefaultDeclaration",
          declaration |-> n.declaration, comments |-> n.comments]
  ELSE n

noSummary == [candidates |-> 0, replaced |-> 0, file |-> program(<<>>)]

\* a text the parser rejects, such as `const = ;`
unparseable == [type |-> "SyntaxError"]

\* jscodeshift(file) returning a tree for every text, an empty one for a text
\* that does not parse
parsesLeniently(text) == TRUE

\* jscodeshift(file) returns a tree; it throws the parser's error otherwise
parses(text) == text.type = "Program"

\* one empty() result put into every property of the three-stub object
stubCallsShared(init, made) ==
  IF init.type = "ObjectExpression"
    THEN [k \in 1..Len(init.properties) |-> made + 1]
    ELSE <<made + 1>>

\* the calls of empty() that made the stubs of a new initializer, counted on
\* from the calls made before: one call for each property of the three-stub
\* object, one for a single stub
stubCalls(init, made) ==
  IF init.type = "ObjectExpression"
    THEN [k \in 1..Len(init.properties) |-> made + k]
    ELSE <<made + 1>>

\* a built node: the pass and the turn of its forEach that built it, the slot
\* of the new node it fills, and the builder call it came from
instance(pass, at, slot, call) ==
  [pass |-> pass, at |-> at, slot |-> slot, call |-> call]

Init ==
  /\ file \in Documents \cup {unparseable}
  /\ root = NullNode
  /\ r = <<>>
  /\ i = 1
  /\ found = <<>>
  /\ j = 1
  /\ pc = "parse"
  /\ err = ""
  /\ run = 1
  /\ replaced = {}
  /\ inserted = 0
  /\ site = <<>>
  /\ first = noSummary
  /\ returned = <<>>
  /\ replaceCalls = 0
  /\ instances = {}
  /\ cliIdle
  /\ pluginIdle

\* const root = jscodeshift(file);
Parse ==
  /\ pc = "parse"
  /\ IF parses(file)
       THEN /\ root' = file
            /\ pc' = "collect"
            /\ err' = err
       ELSE /\ root' = root
            /\ pc' = "failed"
            /\ err' = "SyntaxError"
  /\ UNCHANGED <<file, r, i, found, j, run, replaced, inserted, site, first,
               returned, replaceCalls, instances>>
  /\ UNCHANGED <<cliVars, pluginVars>>

\* const r = getImportDeclaratorPaths(root);
Collect ==
  /\ pc = "collect"
  /\ r' = getImportDeclaratorPaths(root)
  /\ i' = 1
  /\ pc' = "forEach"
  /\ UNCHANGED <<file, root, found, j, err, run, replaced, inserted, site, first,
               returned, replaceCalls, instances>>
  /\ UNCHANGED <<cliVars, pluginVars>>

\* forEach: the turn after turn k
forEachStays(k) == k

forEachNext(k) == k + 1

\* a turn of r.forEach over a list that is collected again after every turn
ProcessCandidateRecollecting ==
  /\ pc = "forEach"
  /\ i <= Len(r)
  /\ LET res == processCandidate(declaratorAt(root, r[i]))
     IN /\ root' = IF res.replacements > 0
                     THEN replaceDeclarator(root, r[i], res.node)
                     ELSE root
        /\ replaced' = IF res.replacements > 0 THEN replaced \cup {i}
                       ELSE replaced
        /\ replaceCalls' = replaceCalls + res.replacements
        /\ instances' =
             IF res.replacements > 0
               THEN LET calls == stubCalls(res.node.init, Cardinality(instances))
                    IN instances
                         \cup {instance("candidates", i, k, calls[k])
                               : k \in 1..Len(calls)}
               ELSE instances
        /\ err' = IF res.threw THEN "TypeError" ELSE err
        /\ pc' = IF res.threw THEN "failed" ELSE pc
  /\ r' = getImportDeclaratorPaths(root')
  /\ i' = forEachNext(i)
  /\ UNCHANGED <<file, found, j, run, inserted, site, first, returned>>
  /\ UNCHANGED <<cliVars, pluginVars>>

\* one turn of r.forEach
ProcessCandidate ==
  /\ pc = "forEach"
  /\ i <= Len(r)
  /\ LET res == processCandidate(declaratorAt(root, r[i]))
     IN /\ root' = IF res.replacements > 0
                     THEN replaceDeclarator(root, r[i], res.node)
                     ELSE root
        /\ replaced' = IF res.replacements > 0 THEN replaced \cup {i}
                       ELSE replaced
        /\ replaceCalls' = replaceCalls + res.replacements
        /\ instances' =
             IF res.replacements > 0
               THEN LET calls == stubCalls(res.node.init, Cardinality(instances))
                    IN instances
                         \cup {instance("candidates", i, k, calls[k])
                               : k \in 1..Len(calls)}
               ELSE instances
        /\ err' = IF res.threw THEN "TypeError" ELSE err
        /\ pc' = IF res.threw THEN "failed" ELSE pc
  /\ i' = forEachNext(i)
  /\ UNCHANGED <<file, r, found, j, run, inserted, site, first, returned>>
  /\ UNCHANGED <<cliVars, pluginVars>>

\* if (r[r.length - 1]) jscodeshift(r[r.length - 1].parent).insertAfter(..)
InsertImport ==
  /\ pc = "forEach"
  /\ i > Len(r)
  /\ IF hasLastCandidate(r)
       THEN /\ root' = insertAfterAt(root, r[Len(r)].stmt, layoutImport)
            /\ site' = r[Len(r)].stmt
            /\ inserted' = inserted + 1
       ELSE UNCHANGED <<root, site, inserted>>
  /\ pc' = "find"
  /\ UNCHANGED <<file, r, i, found, j, err, run, replaced, first,
               returned, replaceCalls, instances>>
  /\ UNCHANGED <<cliVars, pluginVars>>

\* root.find(AssignmentExpression, {..}).filter(..)
FindExports ==
  /\ pc = "find"
  /\ found' = SelectSeq(findExportAssignments(root), passesBodyFilter)
  /\ j' = 1
  /\ pc' = "exports"
  /\ UNCHANGED <<file, root, r, i, err, run, replaced, inserted, site, first,
               returned, replaceCalls, instances>>
  /\ UNCHANGED <<cliVars, pluginVars>>

\* one turn of the forEach over the filtered assignments
RewriteExport ==
  /\ pc = "exports"
  /\ j <= Len(found)
  /\ root' = replaceWith(root, found[j], layoutExport(nodeAt(root, found[j])))
  /\ instances' = instances
       \cup {instance("exports", j, 1, Cardinality(instances) + 1)}
  /\ j' = forEachNext(j)
  /\ UNCHANGED <<file, r, i, found, pc, err, run, replaced, inserted, site, first,
               returned, replaceCalls>>
  /\ UNCHANGED <<cliVars, pluginVars>>

\* return root.toSource();
ToSource ==
  /\ pc = "exports"
  /\ j > Len(found)
  /\ pc' = "done"
  /\ returned' = Append(returned, [file |-> file, text |-> root])
  /\ UNCHANGED <<file, root, r, i, found, j, err, run, replaced, inserted, site,
               first, replaceCalls, instances>>
  /\ UNCHANGED <<cliVars, pluginVars>>

\* the locals of a new invocation
fresh ==
  /\ root' = NullNode
  /\ r' = <<>>
  /\ i' = 1
  /\ found' = <<>>
  /\ j' = 1
  /\ replaced' = {}
  /\ inserted' = 0
  /\ site' = <<>>
  /\ replaceCalls' = 0
  /\ instances' = {}

\* transformer is called again, on what the first invocation returned
Again ==
  /\ pc = "done"
  /\ run = 1
  /\ run' = 2
  /\ file' = reparse(root)
  /\ first' = [candidates |-> Len(r), replaced |-> Cardinality(replaced),
               file |-> file]
  /\ fresh
  /\ pc' = "parse"
  /\ UNCHANGED <<err, returned>>
  /\ UNCHANGED <<cliVars, pluginVars>>

Next ==
  \/ Parse
  \/ Collect
  \/ ProcessCandidate
  \/ InsertImport
  \/ FindExports
  \/ RewriteExport
  \/ ToSource
  \/ Again

Spec == Init /\ [][Next]_vars

-----------------------------------------------------------------------------
(* transformer called several times in one process, on any documents *)

CallDocuments ==
  { program(<<variableDeclaration(<<callLibrary>>), exportsFoo>>),
    program(<<variableDeclaration(<<callReact>>)>>),
    program(<<variableDeclaration(<<memberServer>>),
              variableDeclaration(<<callReact>>)>>),
    program(<<exportAssignment(identifier("Bar"), <<"// the page">>),
              exportsFoo>>),
    program(<<variableDeclaration(<<memberReact, callLibrary>>),
              functionDeclaration(blockStatement(<<exportsFoo>>))>>),
    unparseable }

InitCalls ==
  /\ file \in CallDocuments
  /\ root = NullNode
  /\ r = <<>>
  /\ i = 1
  /\ found = <<>>
  /\ j = 1
  /\ pc = "parse"
  /\ err = ""
  /\ run = 1
  /\ replaced = {}
  /\ inserted = 0
  /\ site = <<>>
  /\ first = noSummary
  /\ returned = <<>>
  /\ replaceCalls = 0
  /\ instances = {}
  /\ cliIdle
  /\ pluginIdle

\* transformer keeping the tree of the invocation before in a variable of the
\* module and working on it when there is one
CallOnKeptTree ==
  /\ pc \in {"done", "failed"}
  /\ run < MaxCalls
  /\ run' = run + 1
  /\ file' \in CallDocuments
  /\ root' = root
  /\ r' = <<>>
  /\ i' = 1
  /\ found' = <<>>
  /\ j' = 1
  /\ replaced' = {}
  /\ inserted' = 0
  /\ site' = <<>>
  /\ replaceCalls' = 0
  /\ instances' = {}
  /\ err' = ""
  /\ pc' = IF root = NullNode THEN "parse" ELSE "collect"
  /\ UNCHANGED <<first, returned>>
  /\ UNCHANGED <<cliVars, pluginVars>>

\* transformer is called once more, after an invocation returned or threw
Call ==
  /\ pc \in {"done", "failed"}
  /\ run < MaxCalls
  /\ run' = run + 1
  /\ file' \in CallDocuments
  /\ fresh
  /\ err' = ""
  /\ pc' = "parse"
  /\ UNCHANGED <<first, returned>>
  /\ UNCHANGED <<cliVars, pluginVars>>

NextCalls ==
  \/ Parse
  \/ Collect
  \/ ProcessCandidate
  \/ InsertImport
  \/ FindExports
  \/ RewriteExport
  \/ ToSource
  \/ Call

SpecCalls == InitCalls /\ [][NextCalls]_vars

\* transformer is synchronous: a statement that can run does run
FairCalls == SpecCalls /\ WF_vars(NextCalls)

-----------------------------------------------------------------------------
(* init(rootDir, reqName, reqTemplate, cliOptions), statement by statement *)

\* the transformer is not running
transformerIdle ==
  /\ file = program(<<>>)
  /\ root = NullNode
  /\ r = <<>>
  /\ i = 1
  /\ found = <<>>
  /\ j = 1
  /\ pc = "idle"
  /\ err = ""
  /\ run = 1
  /\ replaced = {}
  /\ inserted = 0
  /\ site = <<>>
  /\ first = noSummary
  /\ returned = <<>>
  /\ replaceCalls = 0
  /\ instances = {}

SiteNames == {"website", "my-site"}

\* the name on the command line: none, the empty text, or a name
ReqNames == {undefined, ""} \cup SiteNames

RootDirs == {{}, {"website"}, {"website", "my-site"}}

\* what a directory that exists in rootDir holds
existingFiles == [n \in {".gitignore", "README.md"} |-> "existing"]

\* the gitignore files a source may hold
GitignoreNames == {"gitignore", ".gitignore"}

\* the lockfiles a source may hold: none, the last of packageManagers, the
\* last two, all
LockfileSets ==
  {{}, {"pnpm-lock.yaml"}, {"yarn.lock", "pnpm-lock.yaml"},
   {"package-lock.json", "yarn.lock", "pnpm-lock.yaml"}}

\* a template's files; each file's content is named after the file
templateOf(names) == [n \in names |-> "template " \o n]

Templates ==
  {templateOf(ignores \cup locks \cup {"package.json"}) :
     ignores \in SUBSET GitignoreNames, locks \in LockfileSets}
    \cup {templateOf({"gitignore"})}

\* the local template that exists
localPath == <<"./", "my-template">>

\* reqTemplate: none, a Git URL, an existing path, a template with and one
\* without TypeScript variant, no template's name
ReqTemplates ==
  {noText, <<"https://", "example.invalid/missing.git">>, localPath,
   <<"classic">>, <<"facebook">>, <<"no-such-template">>}

\* cliOptions.gitStrategy
GitStrategyOptions == {undefined, "copy", "bogus"}

Answers ==
  [template : {undefined, "classic", "facebook", "Git repository", "Local template"},
   gitRepoUrl : {noText, <<"git@", "example.invalid:site.git">>},
   strategy : {undefined, "copy"},
   templateDir : {noText, localPath},
   useTS : {undefined, "true", "false"}]

PackageManagerOptions == {undefined, "", "npm", "yarn", "pnpm", "bun"}

CwdDirs == {noFiles, templateOf({"yarn.lock"})}

UserAgents ==
  {noAgent, agent(<<"n", "p", "m", "/", "9">>),
   agent(<<"p", "n", "p", "m", "/", "8">>), agent(<<"b", "u", "n", "/", "1">>)}

AskInputs ==
  {a \in [hasYarn : BOOLEAN, hasPnpm : BOOLEAN,
          answer : {undefined, "npm", "yarn", "pnpm"}] :
     /\ a.answer \in choices(a) \cup {undefined}
     /\ (~a.hasYarn /\ ~a.hasPnpm) => a.answer = undefined}

InitCli ==
  /\ transformerIdle
  /\ cliPc = "siteName"
  /\ reqName \in ReqNames
  /\ rootDirs \in RootDirs
  /\ siteName = undefined
  /\ chosenSource = noSource
  /\ destFiles = noFiles
  /\ before = noFiles
  /\ pm = noCall
  /\ cliErr = ""
  /\ pluginIdle

\* const siteName = await getSiteName(reqName, rootDir);
\* const dest = path.resolve(rootDir, siteName);
\* The prompt resolves only to a name its validate accepts.
GetSiteName ==
  /\ cliPc = "siteName"
  /\ \E answer \in {undefined} \cup
                   {a \in SiteNames : validateSiteName(a, rootDirs) = jsTrue} :
       /\ truthy(reqName) => answer = undefined
       /\ LET res == getSiteName(reqName, rootDirs, answer)
          IN IF res.error # ""
             THEN /\ cliPc' = "failed"
                  /\ cliErr' = res.error
                  /\ UNCHANGED <<siteName, destFiles>>
             ELSE /\ cliPc' = "source"
                  /\ siteName' = res.value
                  /\ destFiles' = IF res.value \in rootDirs
                                  THEN existingFiles ELSE noFiles
                  /\ UNCHANGED cliErr
  /\ UNCHANGED <<reqName, rootDirs, chosenSource, before, pm>>
  /\ UNCHANGED <<transformerVars, pluginVars>>

\* const source = await getSource(reqTemplate, templates, cliOptions);
GetSource ==
  /\ cliPc = "source"
  /\ \E reqTemplate \in ReqTemplates, gitStrategy \in GitStrategyOptions,
        typescript \in BOOLEAN, answers \in Answers :
       LET res == getSource(reqTemplate, gitStrategy, typescript, {localPath},
                            answers)
       IN /\ chosenSource' = res
          /\ IF res.error # ""
             THEN cliPc' = "failed" /\ cliErr' = res.error
             ELSE cliPc' = "copy" /\ UNCHANGED cliErr
  /\ UNCHANGED <<reqName, rootDirs, siteName, destFiles, before, pm>>
  /\ UNCHANGED <<transformerVars, pluginVars>>

\* lines 740-766. `files` is what the repository, the template directory or
\* the local path holds. The clone command may fail for any reason, and git
\* refuses a dest that holds files; init then exits. A copy of a template
\* that rejects is rethrown.
CopySource ==
  /\ cliPc = "copy"
  /\ \E files \in Templates, cloned \in BOOLEAN :
       IF chosenSource.type = "git"
       THEN IF cloned /\ destFiles = noFiles
            THEN /\ cliPc' = "updatePkg"
                 /\ destFiles' = IF chosenSource.strategy = "copy"
                                 THEN remove(clone(files), ".git")
                                 ELSE clone(files)
                 /\ UNCHANGED cliErr
            ELSE /\ cliPc' = "failed"
                 /\ cliErr' = "process.exit(1)"
                 /\ UNCHANGED destFiles
       ELSE IF chosenSource.type = "template"
       THEN LET res == copyTemplate(chosenSource, files, destFiles,
                                    chosenSource.typescript)
            IN /\ destFiles' = res.files
               /\ IF res.error # ""
                  THEN cliPc' = "failed" /\ cliErr' = res.error
                  ELSE cliPc' = "updatePkg" /\ UNCHANGED cliErr
       ELSE /\ cliPc' = "updatePkg"
            /\ destFiles' = copy(files, destFiles)
            /\ UNCHANGED cliErr
  /\ UNCHANGED <<reqName, rootDirs, siteName, chosenSource, before, pm>>
  /\ UNCHANGED <<transformerVars, pluginVars>>

\* lines 769-778
UpdatePkg ==
  /\ cliPc = "updatePkg"
  /\ IF pathExists(destFiles, "package.json")
     THEN /\ cliPc' = "rename"
          /\ destFiles' = [destFiles EXCEPT !["package.json"] = "updated"]
          /\ before' = destFiles'
          /\ UNCHANGED cliErr
     ELSE /\ cliPc' = "failed"
          /\ cliErr' = "ENOENT"
          /\ UNCHANGED <<destFiles, before>>
  /\ UNCHANGED <<reqName, rootDirs, siteName, chosenSource, pm>>
  /\ UNCHANGED <<transformerVars, pluginVars>>

\* lines 781-786
RenameGitignore ==
  /\ cliPc = "rename"
  /\ destFiles' = renameGitignore(destFiles)
  /\ cliPc' = "remove"
  /\ UNCHANGED <<reqName, rootDirs, siteName, chosenSource, before, pm, cliErr>>
  /\ UNCHANGED <<transformerVars, pluginVars>>

\* lines 787-789
RemoveGitignore ==
  /\ cliPc = "remove"
  /\ destFiles' = removeGitignore(destFiles)
  /\ cliPc' = "packageManager"
  /\ UNCHANGED <<reqName, rootDirs, siteName, chosenSource, before, pm, cliErr>>
  /\ UNCHANGED <<transformerVars, pluginVars>>

\* const pkgManager = await getPackageManager(dest, cliOptions);
\* The shell and the prompt are part of the call only when
\* askForPackageManagerChoice runs.
GetPackageManager ==
  /\ cliPc = "packageManager"
  /\ \E packageManager \in PackageManagerOptions, skipInstall \in BOOLEAN,
        cwd \in CwdDirs, userAgent \in UserAgents, ask \in AskInputs :
       LET res == getPackageManager(destFiles, packageManager, skipInstall,
                                    cwd, userAgent, ask)
       IN /\ res.asked \/ ask = noAsk
          /\ pm' = res
          /\ IF res.error # ""
             THEN cliPc' = "failed" /\ cliErr' = res.error
             ELSE cliPc' = "install" /\ UNCHANGED cliErr
  /\ UNCHANGED <<reqName, rootDirs, siteName, chosenSource, destFiles, before>>
  /\ UNCHANGED <<transformerVars, pluginVars>>

NextInit ==
  \/ GetSiteName
  \/ GetSource
  \/ CopySource
  \/ UpdatePkg
  \/ RenameGitignore
  \/ RemoveGitignore
  \/ GetPackageManager

SpecInit == InitCli /\ [][NextInit]_vars

-----------------------------------------------------------------------------
(* MyPlugin: onload and the callbacks *)

Envs ==
  [NOTION_TOKEN : {undefined, "secret_env"},
   NOTION_API_TOKEN : {undefined, "", "secret_api"},
   NOTION_DATABASE_LINK : {undefined, "https://notion.so/db"},
   Client : BOOLEAN]

storedDatabase == [link |-> "https://notion.so/stored", id |-> "stored-id"]

\* data.json: absent, or with either key
StoredData ==
  {null}
    \cup {[json |-> "object", keys |-> {"notionToken"}, notionToken |-> t] :
            t \in {"", "secret_stored"}}
    \cup {[json |-> "object", keys |-> {"database"}, database |-> storedDatabase]}
    \cup {saveData([defined |-> TRUE, notionToken |-> "secret_stored",
                    database |-> storedDatabase])}

\* what the host may put in the public field `settings`
HostSettings ==
  {[defined |-> TRUE, notionToken |-> t, database |-> [link |-> "", id |-> ""]] :
     t \in {"", "secret_plugin"}}

\* what is typed in the settings tab
TypedTokens == {"", "typed"}
TypedLinks == {"https://notion.so/typed"}

\* the plugin is constructed: its fields have no initializers
InitPlugin ==
  /\ transformerIdle
  /\ cliIdle
  /\ pluginPc = "onload"
  /\ settings = unset
  /\ client = unset
  /\ env \in Envs
  /\ stored \in StoredData
  /\ notices = <<>>
  /\ defaults = DEFAULT_SETTINGS(env)
  /\ aliased = FALSE
  /\ token = ""
  /\ currentOptions = null
  /\ complete = unset
  /\ pluginErr = ""

\* the field `settings` is public: the host assigns it
HostAssignsSettings ==
  /\ settings' \in HostSettings
  /\ aliased' = FALSE
  /\ UNCHANGED <<pluginPc, client, env, stored, notices, defaults, token,
                 currentOptions, complete, pluginErr>>
  /\ UNCHANGED <<transformerVars, cliVars>>

\* onload: await this.loadSettings(this), which runs to its await of
\* loadData(); a throw rejects onload
OnLoad ==
  /\ pluginPc = "onload"
  /\ LET res == loadSettings(settings, client, env)
     IN /\ token' = res.token
        /\ client' = res.client
        /\ notices' = notices \o res.notices
        /\ pluginErr' = res.error
        /\ pluginPc' = IF res.error = "" THEN "loadData" ELSE "failed"
  /\ UNCHANGED <<settings, env, stored, defaults, aliased, currentOptions,
                 complete>>
  /\ UNCHANGED <<transformerVars, cliVars>>

\* line 147: loadData() reads data.json
LoadData ==
  /\ pluginPc = "loadData"
  /\ currentOptions' = stored
  /\ pluginPc' = "assign"
  /\ UNCHANGED <<settings, client, env, stored, notices, defaults, aliased,
                 token, complete, pluginErr>>
  /\ UNCHANGED <<transformerVars, cliVars>>

\* lines 148-150; the copy is shallow, so a database that comes from the
\* defaults is the defaults' object
AssignSettings ==
  /\ pluginPc = "assign"
  /\ settings' = assign(defaults, currentOptions)
  /\ aliased' = ("database" \notin currentOptions.keys)
  /\ complete' = settings'
  /\ pluginPc' = "register"
  /\ UNCHANGED <<client, env, stored, notices, defaults, token, currentOptions,
                 pluginErr>>
  /\ UNCHANGED <<transformerVars, cliVars>>

\* lines 41-124: the ribbon icon, the commands and the settings tab are
\* registered
Register ==
  /\ pluginPc = "register"
  /\ pluginPc' = "loaded"
  /\ UNCHANGED <<settings, client, env, stored, notices, defaults, aliased,
                 token, currentOptions, complete, pluginErr>>
  /\ UNCHANGED <<transformerVars, cliVars>>

\* saveSettings(): await this.saveData(this.settings)
SaveSettings ==
  /\ pluginPc # "idle"
  /\ stored' = saveData(settings)
  /\ stored' # stored
  /\ UNCHANGED <<pluginPc, settings, client, env, notices, defaults, aliased,
                 token, currentOptions, complete, pluginErr>>
  /\ UNCHANGED <<transformerVars, cliVars>>

\* the ribbon icon is clicked (line 47)
RibbonClick ==
  /\ pluginPc = "loaded"
  /\ Len(notices) < MaxNotices
  /\ notices' = Append(notices, notice(databaseVia, defaults.database.link))
  /\ UNCHANGED <<pluginPc, settings, client, env, stored, defaults, aliased,
                 token, currentOptions, complete, pluginErr>>
  /\ UNCHANGED <<transformerVars, cliVars>>

\* SampleSettingTab: the token field changes (lines 205-209)
ChangeToken ==
  /\ pluginPc = "loaded"
  /\ settings # unset
  /\ \E value \in TypedTokens :
       /\ settings' = [settings EXCEPT !.notionToken = value]
       /\ stored' = saveData(settings')
  /\ UNCHANGED <<pluginPc, client, env, notices, defaults, aliased, token,
                 currentOptions, complete, pluginErr>>
  /\ UNCHANGED <<transformerVars, cliVars>>

\* SampleSettingTab: the link field changes (lines 220-224); the assignment
\* goes to the object settings.database is
ChangeLink ==
  /\ pluginPc = "loaded"
  /\ settings # unset
  /\ \E value \in TypedLinks :
       /\ settings' = [settings EXCEPT !.database.link = value]
       /\ defaults' = IF aliased THEN [defaults EXCEPT !.database.link = value]
                      ELSE defaults
       /\ stored' = saveData(settings')
  /\ UNCHANGED <<pluginPc, client, env, notices, aliased, token, currentOptions,
                 complete, pluginErr>>
  /\ UNCHANGED <<transformerVars, cliVars>>

NextPlugin ==
  \/ HostAssignsSettings
  \/ OnLoad
  \/ LoadData
  \/ AssignSettings
  \/ Register
  \/ SaveSettings
  \/ RibbonClick
  \/ ChangeToken
  \/ ChangeLink

SpecPlugin == InitPlugin /\ [][NextPlugin]_vars

-----------------------------------------------------------------------------
(* Vocabulary of the properties *)

toSet(q) == {q[k] : k \in 1..Len(q)}

\* a declarator the candidate collection picks up, in either form
isBindingCandidate(d) == matchesDefaultImport(d) \/ matchesNamedImport(d)

\* the Binding Candidates of a document, in document order
bindingCandidates(n) ==
  SelectSeq(declaratorPaths(n),
            LAMBDA d : isBindingCandidate(declaratorAt(n, d)))

isRequireCall(e) ==
  e.type = "CallExpression" /\ e.callee = identifier("require")

isDirectForm(d) == isRequireCall(d.init)

isMemberForm(d) ==
  d.init.type = "MemberExpression" /\ isRequireCall(d.init.object)

\* the argument list of the require call of a candidate of either form
requireArguments(d) ==
  IF isDirectForm(d) THEN d.init.arguments ELSE d.init.object.arguments

isStringLiteral(a) == a.type = "Literal" /\ a.jstype = "string"

isExportAssignment(stmt) ==
  /\ stmt.type = "ExpressionStatement"
  /\ matchesExportAssignment(stmt.expression)

\* the statements of the top-level list of a document
topLevelPaths(n) == {<<step("body", k)>> : k \in 1..Len(n.body)}

\* the export assignments that are not members of the top-level list, in
\* document order
nestedExportAssignments(n) ==
  LET below == SelectSeq(statementPaths(n, <<>>),
                         LAMBDA q : Len(q) > 1 /\ isExportAssignment(nodeAt(n, q)))
  IN [k \in 1..Len(below) |-> nodeAt(n, below[k])]

\* where the statement at path p of the input is in the output: the inserted
\* import moves the later members of its list by one
shifted(p) ==
  LET n == Len(site)
  IN IF /\ n > 0
        /\ Len(p) >= n
        /\ SubSeq(p, 1, n - 1) = front(site)
        /\ p[n].field = site[n].field
        /\ p[n].idx > site[n].idx
       THEN [p EXCEPT ![n] = step(p[n].field, p[n].idx + 1)]
       ELSE p

\* the declarator of the output that stands where d stood in the input
outDeclarator(d) == declaratorAt(root, [stmt |-> shifted(d.stmt), decl |-> d.decl])

\* the list that holds the statement at p
holdingList(n, p) == nodeAt(n, front(p))[p[Len(p)].field]

isLayoutImport(stmt) ==
  /\ stmt.type = "ImportDeclaration"
  /\ stmt.specifiers = <<importDefaultSpecifier(identifier("Layout"))>>
  /\ stmt.source = literal(<<"@theme/Layout">>)

countLayoutImports(n) ==
  Cardinality({q \in toSet(statementPaths(n, <<>>)) : isLayoutImport(nodeAt(n, q))})

\* props => <div {...props}></div>
isPassthroughStub(f) ==
  /\ f.type = "ArrowFunctionExpression"
  /\ f.params = <<identifier("props")>>
  /\ f.body.type = "JSXElement"
  /\ f.body.openingElement.name = jsxIdentifier("div")
  /\ f.body.openingElement.attributes
       = <<jsxSpreadAttribute(identifier("props"))>>
  /\ f.body.children = <<>>

\* {Container: stub, GridBlock: stub, MarkdownBlock: stub}
isThreeStubObject(o) ==
  /\ o.type = "ObjectExpression"
  /\ Len(o.properties) = 3
  /\ [k \in 1..3 |-> o.properties[k].key]
       = <<identifier("Container"), identifier("GridBlock"),
           identifier("MarkdownBlock")>>
  /\ \A k \in 1..3 : isPassthroughStub(o.properties[k].value)

\* export default props => <Layout><Tag {...props} /></Layout>
isLayoutExportOf(stmt, tag) ==
  /\ stmt.type = "ExportDeclaration"
  /\ stmt.default
  /\ stmt.declaration.type = "ArrowFunctionExpression"
  /\ stmt.declaration.params = <<identifier("props")>>
  /\ LET e == stmt.declaration.body
     IN /\ e.type = "JSXElement"
        /\ e.openingElement.name = jsxIdentifier("Layout")
        /\ e.closingElement = jsxClosingElement(jsxIdentifier("Layout"))
        /\ Len(e.children) = 1
        /\ LET c == e.children[1]
           IN /\ c.type = "JSXElement"
              /\ c.openingElement.name = jsxIdentifier(tag)
              /\ c.openingElement.selfClosing
              /\ c.openingElement.attributes
                   = <<jsxSpreadAttribute(identifier("props"))>>
              /\ c.closingElement = NullNode
              /\ c.children = <<>>

-----------------------------------------------------------------------------
(* C1 - C10 *)

\* C1: an assignment `module.exports = <identifier>` that is not a direct
\* member of the top-level statement list is never rewritten: the finished
\* transform holds the same nested export assignments as its input.
C1_NestedExportUntouched ==
  pc = "done" => nestedExportAssignments(root) = nestedExportAssignments(file)

\* C2 as stated: a second invocation, on the output of any first one, collects
\* no candidate, finds no export assignment, changes nothing and inserts no
\* second import.
C2_SecondPassIdle ==
  (run = 2 /\ pc = "done")
    => r = <<>> /\ found = <<>> /\ inserted = 0 /\ root = file

\* C2, amended: when every candidate of the first invocation was rewritten
\* (none was a no-op), the second invocation collects no candidate, finds no
\* export assignment, inserts no import and returns its input unchanged.
C2_SecondPassIdleWhenAllRewritten ==
  (run = 2 /\ pc = "done" /\ first.replaced = first.candidates)
    => r = <<>> /\ found = <<>> /\ inserted = 0 /\ root = file

C2_Witness ==
  /\ run = 2
  /\ pc = "done"
  /\ first.candidates > 0
  /\ first.replaced = first.candidates
  /\ \E q \in topLevelPaths(first.file) : isExportAssignment(nodeAt(first.file, q))

\* C3: when the document holds a Binding Candidate, the companion import is
\* the statement right after the statement that holds the candidate last in
\* document order.
C3_ImportAfterLastInDocumentOrder ==
  (pc = "done" /\ bindingCandidates(file) # <<>>)
    => LET c    == bindingCandidates(file)
           last == shifted(c[Len(c)].stmt)
           list == holdingList(root, last)
           k    == last[Len(last)].idx
       IN Len(list) > k /\ isLayoutImport(list[k + 1])

\* C4: one invocation inserts exactly one Layout import when the candidate
\* list is non-empty and none when it is empty, whether or not any candidate
\* was rewritten.
C4_OneImportIffCandidates ==
  pc = "done"
    => LET n == IF Len(r) > 0 THEN 1 ELSE 0
       IN /\ inserted = n
          /\ countLayoutImports(root) = countLayoutImports(file) + n
          /\ (Len(r) > 0) = (bindingCandidates(file) # <<>>)

C4_Witness ==
  pc = "done" /\ Len(r) > 0 /\ replaced = {} /\ inserted = 1

\* C5: a candidate `X = require('<..>')` whose string contains
\* '../../core/CompLibrary' ends bound, under the same identifier, to the
\* object {Container, GridBlock, MarkdownBlock} of passthrough stubs.
C5_SharedLibrarySubstring ==
  pc = "done"
    => \A d \in toSet(declaratorPaths(file)) :
         LET old == declaratorAt(file, d)
         IN (/\ isDirectForm(old)
             /\ Len(old.init.arguments) > 0
             /\ isStringLiteral(old.init.arguments[1])
             /\ includes(old.init.arguments[1].value, COMP_LIBRARY))
              => /\ outDeclarator(d).id = old.id
                 /\ isThreeStubObject(outDeclarator(d).init)

C5_Witness ==
  /\ pc = "done"
  /\ \E d \in toSet(declaratorPaths(file)) :
       LET old == declaratorAt(file, d)
       IN /\ isDirectForm(old)
          /\ Len(old.init.arguments) > 0
          /\ isStringLiteral(old.init.arguments[1])
          /\ includes(old.init.arguments[1].value, COMP_LIBRARY)
          /\ old.init.arguments[1].value # COMP_LIBRARY
          /\ isThreeStubObject(outDeclarator(d).init)

\* C6: a candidate `X = require('../../core/CompLibrary.js').<member>` ends
\* bound to the three-stub object, the same declarator the direct-call rule
\* builds for `X = require('../../core/CompLibrary')`.
C6_MemberExactPath ==
  pc = "done"
    => \A d \in toSet(declaratorPaths(file)) :
         LET old == declaratorAt(file, d)
         IN (/\ isMemberForm(old)
             /\ old.init.object.arguments = <<literal(COMP_LIBRARY_JS)>>)
              => /\ isThreeStubObject(outDeclarator(d).init)
                 /\ outDeclarator(d)
                      = processCallExpression(
                          variableDeclarator(
                            old.id, require(<<literal(COMP_LIBRARY)>>))).node

C6_Witness ==
  /\ pc = "done"
  /\ \E d \in toSet(declaratorPaths(file)) :
       LET old == declaratorAt(file, d)
       IN /\ isMemberForm(old)
          /\ old.init.object.arguments = <<literal(COMP_LIBRARY_JS)>>
          /\ outDeclarator(d).init.type = "ObjectExpression"

\* C7: a candidate of either form whose require argument is a template
\* literal ends bound to one passthrough stub exactly when the joined text of
\* its quasis contains '/core/', and is left as it was otherwise; it is never
\* bound to the three-stub object.
C7_TemplateCorePath ==
  pc = "done"
    => \A d \in toSet(declaratorPaths(file)) :
         LET old == declaratorAt(file, d)
         IN (/\ isDirectForm(old) \/ isMemberForm(old)
             /\ Len(requireArguments(old)) > 0
             /\ requireArguments(old)[1].type = "TemplateLiteral")
              => LET text == join(requireArguments(old)[1].quasis)
                     new  == outDeclarator(d)
                 IN /\ new.id = old.id
                    /\ ~isThreeStubObject(new.init)
                    /\ includes(text, CORE_PATTERN) <=> isPassthroughStub(new.init)
                    /\ ~includes(text, CORE_PATTERN) => new = old

C7_Witness ==
  /\ pc = "done"
  /\ \E d \in toSet(declaratorPaths(file)) :
       LET old == declaratorAt(file, d)
       IN /\ isMemberForm(old)
          /\ Len(requireArguments(old)) > 0
          /\ requireArguments(old)[1].type = "TemplateLiteral"
          /\ \A k \in 1..Len(requireArguments(old)[1].quasis) :
               ~includes(requireArguments(old)[1].quasis[k], CORE_PATTERN)
          /\ isPassthroughStub(outDeclarator(d).init)

\* C8: a top-level statement `module.exports = Foo` is replaced, in place, by
\* `export default props => <Layout><Foo {...props} /></Layout>`, which
\* carries the comments of the statement it replaces.
C8_ExportRewrite ==
  pc = "done"
    => \A q \in topLevelPaths(file) :
         LET old == nodeAt(file, q)
         IN isExportAssignment(old)
              => /\ isLayoutExportOf(nodeAt(root, shifted(q)),
                                     old.expression.right.name)
                 /\ nodeAt(root, shifted(q)).comments = old.comments

C8_Witness ==
  /\ pc = "done"
  /\ \E q \in topLevelPaths(file) :
       /\ isExportAssignment(nodeAt(file, q))
       /\ nodeAt(file, q).comments # <<>>
       /\ nodeAt(root, shifted(q)).type = "ExportDeclaration"
       /\ shifted(q) # q

\* C9: on a document with no Binding Candidate and no Export Assignment
\* Candidate (no top-level export assignment) transformer replaces nothing
\* and inserts nothing: the output is the input.
C9_NoCandidateIdentity ==
  (/\ pc = "done"
   /\ bindingCandidates(file) = <<>>
   /\ \A q \in topLevelPaths(file) : ~isExportAssignment(nodeAt(file, q)))
    => root = file /\ inserted = 0 /\ replaced = {} /\ found = <<>>

\* a candidate of either form whose require call has no first argument, or
\* one that is neither a string literal nor a template literal
hasUnknownArgument(d) ==
  /\ isDirectForm(d) \/ isMemberForm(d)
  /\ \/ requireArguments(d) = <<>>
     \/ /\ ~isStringLiteral(requireArguments(d)[1])
        /\ requireArguments(d)[1].type # "TemplateLiteral"

\* C10: a candidate whose require call has a number, an identifier, any other
\* unrecognised shape or nothing as first argument raises no error and keeps
\* its declarator.
C10_UnknownArgumentSafe ==
  (\E d \in toSet(declaratorPaths(file)) : hasUnknownArgument(declaratorAt(file, d)))
    => /\ err = ""
       /\ pc # "failed"
       /\ pc = "done"
            => \A d \in toSet(declaratorPaths(file)) :
                 hasUnknownArgument(declaratorAt(file, d))
                   => outDeclarator(d) = declaratorAt(file, d)

C10_Witness ==
  /\ pc = "done"
  /\ inserted = 1
  /\ \E d \in toSet(declaratorPaths(file)) :
       /\ isDirectForm(declaratorAt(file, d))
       /\ requireArguments(declaratorAt(file, d)) = <<>>

-----------------------------------------------------------------------------
(* C11 - C20 *)

\* C11: two invocations called with the same document return the same text,
\* whatever was transformed before or between them, and every invocation
\* starts from the tree parsed from its own document with nothing done yet.
C11_SameInputSameOutput ==
  /\ \A a, b \in 1..Len(returned) :
       returned[a].file = returned[b].file
         => returned[a].text = returned[b].text
  /\ pc = "collect"
       => /\ root = file
          /\ r = <<>> /\ found = <<>>
          /\ replaced = {} /\ inserted = 0 /\ instances = {}

C11_Witness ==
  /\ Len(returned) = 3
  /\ returned[1].file = returned[3].file
  /\ returned[2].file # returned[1].file
  /\ returned[1].text # returned[1].file
  /\ returned[2].text # returned[2].file

\* C12: when the text does not parse the invocation ends with the parser's
\* error and returns nothing, having collected, replaced, inserted and found
\* nothing; an invocation that returned a text ended without an error.
C12_ParseFailurePropagates ==
  /\ file = unparseable
       => /\ pc \in {"parse", "failed"}
          /\ pc = "failed" => err = "SyntaxError"
          /\ root = NullNode /\ r = <<>> /\ found = <<>>
          /\ replaced = {} /\ inserted = 0 /\ replaceCalls = 0
          /\ instances = {}
          /\ \A k \in 1..Len(returned) : returned[k].file # file
  /\ pc = "failed" => err # "" /\ Len(returned) < run
  /\ pc = "done" => err = "" /\ Len(returned) = run

C12_Witness ==
  file = unparseable /\ pc = "failed" /\ err = "SyntaxError" /\ returned = <<>>

\* C13: an invocation whose text parsed reaches its return; a turn of either
\* loop leaves the list the loop visits as it is and moves to the next entry.
C13_Terminates ==
  /\ (pc = "collect") ~> (pc = "done")
  /\ [][/\ pc = "forEach" /\ i <= Len(r) => r' = r /\ i' = i + 1
        /\ pc = "exports" /\ j <= Len(found) => found' = found /\ j' = j + 1]_vars

C13_Witness ==
  /\ pc = "done"
  /\ Len(r) >= 2
  /\ replaced # {}
  /\ Len(found) >= 1

RECURSIVE rewriteInOrder(_, _, _, _)
\* the tree after the candidates of `list` were processed in the order
\* list[order[k]], list[order[k + 1]], ..
rewriteInOrder(tree, list, order, k) ==
  IF k > Len(list) THEN tree
  ELSE LET d   == list[order[k]]
           res == processCandidate(declaratorAt(tree, d))
       IN rewriteInOrder(
            IF res.replacements > 0 THEN replaceDeclarator(tree, d, res.node)
            ELSE tree,
            list, order, k + 1)

\* the forEach over r has made its last turn
candidatesDone == pc = "forEach" /\ i > Len(r)

\* C14: what a candidate's declarator ends as is what the rewrite of that
\* declarator alone, as it stands in the input, gives; and processing the
\* candidate list in any order gives the tree the forEach gives.
C14_RewritesCommute ==
  candidatesDone
    => /\ \A k \in 1..Len(r) :
            declaratorAt(root, r[k])
              = processCandidate(declaratorAt(file, r[k])).node
       /\ \A order \in Permutations(1..Len(r)) :
            rewriteInOrder(file, r, order, 1) = root

C14_Witness ==
  /\ candidatesDone
  /\ Len(r) >= 2
  /\ r[1].stmt = r[2].stmt
  /\ replaced # {}
  /\ \E order \in Permutations(1..Len(r)) : order[1] # 1

\* the Rewrite Decision of a declarator, by the rules of either form
decision(d) ==
  IF ~(isDirectForm(d) \/ isMemberForm(d)) THEN "no-op"
  ELSE IF requireArguments(d) = <<>> THEN "no-op"
  ELSE LET a == requireArguments(d)[1]
       IN IF a.type = "TemplateLiteral"
            THEN IF includes(join(a.quasis), CORE_PATTERN)
                   THEN "single-stub-function" ELSE "no-op"
          ELSE IF ~isStringLiteral(a) THEN "no-op"
          ELSE IF isDirectForm(d)
            THEN IF includes(a.value, COMP_LIBRARY)
                   THEN "three-stub-object" ELSE "no-op"
          ELSE IF a.value = COMP_LIBRARY_JS THEN "three-stub-object"
          ELSE IF includes(a.value, SERVER_PATTERN) THEN "single-stub-function"
          ELSE "no-op"

RECURSIVE withoutDeclarators(_, _, _)
\* the tree with the declarators of list[k], list[k + 1], .. taken out
withoutDeclarators(tree, list, k) ==
  IF k > Len(list) THEN tree
  ELSE withoutDeclarators(
         replaceAt(tree, list[k].stmt,
                   [nodeAt(tree, list[k].stmt)
                      EXCEPT !.declarations[list[k].decl] = NullNode]),
         list, k + 1)

\* the declarators of r whose decision, taken on the input, is not no-op
decided == {k \in 1..Len(r) : decision(declaratorAt(file, r[k])) # "no-op"}

\* C15: when the forEach over the candidates is over, each candidate whose
\* decision is not no-op had its declarator replaced, by one replaceWith
\* call, by a declarator of the same identifier; each no-op candidate is as
\* it was; and but for the replaced declarators the tree is the input tree.
C15_OneReplacementEach ==
  candidatesDone
    => /\ \A k \in 1..Len(r) :
            Len(nodeAt(root, r[k].stmt).declarations)
              = Len(nodeAt(file, r[k].stmt).declarations)
       /\ replaced = decided
       /\ replaceCalls = Cardinality(decided)
       /\ \A k \in 1..Len(r) :
            LET old == declaratorAt(file, r[k])
                new == declaratorAt(root, r[k])
            IN IF k \in decided
                 THEN /\ new.type = "VariableDeclarator"
                      /\ new.id = old.id
                      /\ new # old
                 ELSE new = old
       /\ LET touched == SelectSeq(r, LAMBDA d :
                            decision(declaratorAt(file, d)) # "no-op")
          IN withoutDeclarators(root, touched, 1)
               = withoutDeclarators(file, touched, 1)

C15_Witness ==
  /\ candidatesDone
  /\ Len(file.body) >= 2
  /\ \E a, b \in 1..Len(r) :
       /\ r[a].stmt = r[b].stmt
       /\ a \in replaced
       /\ b \notin replaced

\* C16: no two slots filled by this invocation hold the node of one builder
\* call: the three stubs of a three-stub object come from three calls of
\* empty() and are equal in structure, a single stub comes from one call,
\* and each export declaration comes from its own evaluation of the builder.
C16_DistinctInstances ==
  /\ \A a, b \in instances : a.call = b.call => a = b
  /\ candidatesDone
       => \A k \in replaced :
            LET init == declaratorAt(root, r[k]).init
                mine == {x \in instances : x.pass = "candidates" /\ x.at = k}
            IN IF init.type = "ObjectExpression"
                 THEN /\ Cardinality({x.call : x \in mine}) = 3
                      /\ {x.slot : x \in mine} = 1..3
                      /\ init.properties[1].value = init.properties[2].value
                      /\ init.properties[2].value = init.properties[3].value
                 ELSE Cardinality(mine) = 1
  /\ pc = "done"
       => Cardinality({x \in instances : x.pass = "exports"}) = Len(found)

C16_Witness ==
  /\ pc = "done"
  /\ \E x, y \in instances :
       /\ x.pass = "candidates" /\ x.slot = 3
       /\ y.pass = "exports"
       /\ y.call > x.call

\* C17: a candidate `X = require('<string>')` ends bound to the three-stub
\* object when the string contains '../../core/CompLibrary' and is left as it
\* was otherwise, a string that mentions 'server' or holds '/core/' included.
C17_DirectStringRule ==
  pc = "done"
    => \A d \in toSet(declaratorPaths(file)) :
         LET old == declaratorAt(file, d)
         IN (/\ isDirectForm(old)
             /\ Len(old.init.arguments) > 0
             /\ isStringLiteral(old.init.arguments[1]))
              => IF includes(old.init.arguments[1].value, COMP_LIBRARY)
                   THEN isThreeStubObject(outDeclarator(d).init)
                   ELSE outDeclarator(d) = old

C17_Witness ==
  /\ pc = "done"
  /\ inserted = 1
  /\ \E d \in toSet(declaratorPaths(file)) :
       LET old == declaratorAt(file, d)
       IN /\ isDirectForm(old)
          /\ Len(old.init.arguments) > 0
          /\ isStringLiteral(old.init.arguments[1])
          /\ includes(old.init.arguments[1].value, SERVER_PATTERN)
          /\ ~includes(old.init.arguments[1].value, COMP_LIBRARY)
          /\ outDeclarator(d) = old

\* C18: a candidate `X = require('<string>').<member>` ends bound to the
\* three-stub object when the string is '../../core/CompLibrary.js', to one
\* passthrough stub when it is not and mentions 'server', and is left as it
\* was otherwise ('../../core/CompLibrary' included); no declarator is
\* replaced twice.
C18_MemberStringRule ==
  pc = "done"
    => /\ replaceCalls = Cardinality(replaced)
       /\ \A d \in toSet(declaratorPaths(file)) :
            LET old == declaratorAt(file, d)
            IN (/\ isMemberForm(old)
                /\ Len(old.init.object.arguments) > 0
                /\ isStringLiteral(old.init.object.arguments[1]))
                 => LET v == old.init.object.arguments[1].value
                    IN IF v = COMP_LIBRARY_JS
                         THEN isThreeStubObject(outDeclarator(d).init)
                       ELSE IF includes(v, SERVER_PATTERN)
                         THEN /\ outDeclarator(d).id = old.id
                              /\ isPassthroughStub(outDeclarator(d).init)
                       ELSE outDeclarator(d) = old

C18_Witness ==
  /\ pc = "done"
  /\ replaceCalls = 1
  /\ \E d \in toSet(declaratorPaths(file)) :
       LET old == declaratorAt(file, d)
       IN /\ isMemberForm(old)
          /\ Len(old.init.object.arguments) > 0
          /\ isStringLiteral(old.init.object.arguments[1])
          /\ includes(old.init.object.arguments[1].value, COMP_LIBRARY_JS)
          /\ includes(old.init.object.arguments[1].value, SERVER_PATTERN)
          /\ isPassthroughStub(outDeclarator(d).init)

RECURSIVE exportsInOrder(_, _, _, _)
\* the tree after the statements of `list` were replaced by their Layout
\* exports in the order list[order[k]], list[order[k + 1]], ..; no tree
\* when a path of the list leads to an assignment no more
exportsInOrder(tree, list, order, k) ==
  IF k > Len(list) THEN tree
  ELSE LET q == list[order[k]]
       IN IF nodeAt(tree, q).type
               \notin {"ExpressionStatement", "AssignmentExpression"}
            THEN NullNode
          ELSE exportsInOrder(
                 replaceWith(tree, q, layoutExport(nodeAt(tree, q))),
                 list, order, k + 1)

\* C19: a turn of the export forEach changes the tree at the matched
\* statement only: its list keeps its length, the Layout export of the
\* statement's identifier stands at the statement's index, and everything
\* else is as before; replacing the matches found in any order gives the
\* same tree.
C19_ExportsReplacedInPlace ==
  [][/\ (pc = "exports" /\ j <= Len(found))
          => LET q == found[j]
             IN /\ Len(holdingList(root', q)) = Len(holdingList(root, q))
                /\ isLayoutExportOf(nodeAt(root', q),
                                    matched(nodeAt(root, q)).right.name)
                /\ replaceAt(root', q, NullNode) = replaceAt(root, q, NullNode)
     /\ pc = "find"
          => \A order \in Permutations(1..Len(found')) :
               /\ exportsInOrder(root, found', order, 1) # NullNode
               /\ exportsInOrder(root, found', order, 1)
                    = exportsInOrder(root, found',
                                     [k \in 1..Len(found') |-> k], 1)
    ]_vars

C19_Witness ==
  /\ pc = "done"
  /\ Len(found) >= 2
  /\ site # <<>>
  /\ \A k \in 1..Len(found) : nodeAt(root, found[k]).type = "ExportDeclaration"

\* `module.exports = <identifier>;`
isPlainExportAssignment(stmt) ==
  /\ stmt.type = "ExpressionStatement"
  /\ stmt.expression.type = "AssignmentExpression"
  /\ stmt.expression.operator = "="
  /\ stmt.expression.left = moduleExports
  /\ stmt.expression.right.type = "Identifier"

\* C20: a top-level expression statement is changed only if it is
\* `module.exports = <identifier>`: the assignment is `=`, its left side is
\* the member path module.exports, its right side one identifier.
C20_OnlyPlainExportAssignments ==
  pc = "done"
    => \A q \in topLevelPaths(file) :
         LET old == nodeAt(file, q)
         IN (old.type = "ExpressionStatement" /\ nodeAt(root, shifted(q)) # old)
              => isPlainExportAssignment(old)

-----------------------------------------------------------------------------
(* C21 - C28 *)

\* C21: nothing is rewritten before the candidates are collected; the list
\* the forEach, the insertion and the choice of the last candidate use is the
\* one collected from the parsed input, whatever was rewritten since; the
\* import is inserted only when every candidate had its turn; an export is
\* rewritten only after the insertion step; the text is returned last.
C21_StepOrder ==
  /\ pc \in {"parse", "collect"}
       => replaced = {} /\ replaceCalls = 0 /\ inserted = 0 /\ instances = {}
  /\ pc \in {"forEach", "find", "exports", "done"}
       => r = getImportDeclaratorPaths(file)
  /\ pc = "forEach"
       => /\ inserted = 0
          /\ replaced \subseteq 1..(i - 1)
          /\ \A x \in instances : x.pass = "candidates"
  /\ pc \in {"find", "exports", "done"}
       => /\ i = Len(r) + 1
          /\ inserted = (IF Len(r) > 0 THEN 1 ELSE 0)
          /\ Len(r) > 0 => site = r[Len(r)].stmt
  /\ (\E x \in instances : x.pass = "exports") => pc \in {"exports", "done"}
  /\ Len(returned) = run <=> pc = "done"
  /\ pc = "done" => j = Len(found) + 1 /\ returned[run].text = root

C21_Witness ==
  /\ pc = "done"
  /\ Len(r) >= 2
  /\ replaced # {}
  /\ Len(getImportDeclaratorPaths(root)) < Len(r)
  /\ inserted = 1
  /\ \E x \in instances : x.pass = "exports"

\* C22: a declarator is in the candidate list exactly when its initializer
\* is a call of the identifier `require` or a member access on such a call,
\* and at most once; a document without such a declarator has nothing
\* collected, nothing rewritten and no import inserted.
C22_CandidateIffRequireForm ==
  pc \in {"forEach", "find", "exports", "done"}
    => /\ \A d \in toSet(declaratorPaths(file)) :
            d \in toSet(r)
              <=> \/ isDirectForm(declaratorAt(file, d))
                  \/ isMemberForm(declaratorAt(file, d))
       /\ \A a, b \in 1..Len(r) : r[a] = r[b] => a = b
       /\ (\A d \in toSet(declaratorPaths(file)) :
             /\ ~isDirectForm(declaratorAt(file, d))
             /\ ~isMemberForm(declaratorAt(file, d)))
            => r = <<>> /\ replaced = {} /\ inserted = 0

\* C23: when an invocation rewrote an export assignment into the Layout
\* export, its output holds the import of Layout.
C23_LayoutExportHasImport ==
  (pc = "done" /\ found # <<>>) => countLayoutImports(root) >= 1

\* the Layout imports among the top-level statements
countTopLevelImports(n) ==
  Cardinality({q \in topLevelPaths(n) : isLayoutImport(nodeAt(n, q))})

\* C24: every declarator of either require form is collected, at whatever
\* depth it is declared; the import becomes the next member of the list that
\* holds the declaration of the last candidate of the list, and when that
\* list is the body of a function or block the top-level list gets none.
C24_ImportInHoldingList ==
  pc = "done"
    => /\ \A d \in toSet(declaratorPaths(file)) :
            (\/ isDirectForm(declaratorAt(file, d))
             \/ isMemberForm(declaratorAt(file, d))) => d \in toSet(r)
       /\ Len(r) > 0
            => LET last == r[Len(r)].stmt
                   k    == last[Len(last)].idx
               IN /\ Len(holdingList(root, last))
                       = Len(holdingList(file, last)) + 1
                  /\ isLayoutImport(holdingList(root, last)[k + 1])
                  /\ nodeAt(root, last).type = "VariableDeclaration"
                  /\ Len(last) > 1
                       => /\ Len(root.body) = Len(file.body)
                          /\ countTopLevelImports(root)
                               = countTopLevelImports(file)

C24_Witness ==
  /\ pc = "done"
  /\ run = 1
  /\ Len(r) >= 2
  /\ Len(r[1].stmt) > 1
  /\ Len(site) > 1
  /\ isLayoutImport(nodeAt(root, [site EXCEPT ![Len(site)].idx = @ + 1]))
  /\ countLayoutImports(root) = 1

\* C25: getSiteName rejects an explicit reqName that names an existing
\* directory of rootDir: it throws an Error carrying the validation message
\* instead of returning reqName, so init goes no further than getSiteName and
\* nothing is written into the existing directory.
C25_ExistingDirectoryRejected ==
  (truthy(reqName) /\ reqName \in rootDirs) =>
    /\ cliPc \in {"siteName", "failed"}
    /\ cliPc = "failed" => cliErr = "Directory already exists at path"
    /\ siteName = undefined
    /\ destFiles = noFiles

\* C26: on plugin load the token is read from settings that were populated
\* from DEFAULT_SETTINGS and the stored data; loadSettings never dereferences
\* an unset settings object, and it ends either with settings equal to
\* DEFAULT_SETTINGS overridden by the stored data and a client built from the
\* chosen token (the settings' token first, then NOTION_API_TOKEN), or with the
\* error 'Notion API Token has not been loaded yet, please load token'.
C26_SettingsPopulatedBeforeToken ==
  /\ pluginErr \in
       {"", "Notion API Token has not been loaded yet, please load token"}
  /\ pluginPc \in {"register", "loaded"} =>
       /\ complete = assign(DEFAULT_SETTINGS(env), currentOptions)
       /\ token = or(complete.notionToken, env.NOTION_API_TOKEN)
       /\ client = newClient(token)

\* getPackageManager has been called
packageManagerCalled == pm # noCall

\* the first entry of a list of values that is not undefined
RECURSIVE firstDefined(_)
firstDefined(values) ==
  IF values = <<>> THEN undefined
  ELSE IF Head(values) # undefined THEN Head(values)
  ELSE firstDefined(Tail(values))

\* the package manager whose lockfile a directory holds, npm before yarn
\* before pnpm
lockfileOf(files) ==
  IF "package-lock.json" \in DOMAIN files THEN "npm"
  ELSE IF "yarn.lock" \in DOMAIN files THEN "yarn"
  ELSE IF "pnpm-lock.yaml" \in DOMAIN files THEN "pnpm"
  ELSE undefined

\* the sources getPackageManager consults before its last resort, in order
earlierSources ==
  <<lockfileOf(destFiles), pm.call.packageManager, lockfileOf(pm.call.cwd),
    findPackageManagerFromUserAgent(pm.call.userAgent)>>

\* what the call returns when its option is acceptable
precedence ==
  firstDefined(earlierSources \o
               <<IF pm.call.skipInstall THEN "npm"
                 ELSE askForPackageManagerChoice(pm.call.ask).value>>)

packageManagerPrecedence ==
  /\ pm.error = ""
  /\ pm.value = precedence
  /\ lockfileOf(destFiles) # undefined => pm.value = lockfileOf(destFiles)
  /\ pm.prompted =>
       firstDefined(earlierSources) = undefined /\ ~pm.call.skipInstall

\* C27: getPackageManager throws for a packageManager option outside
\* {npm, yarn, pnpm} before any lookup; otherwise it returns the first defined
\* value of: lockfile in dest, the option, lockfile in the current directory,
\* the user agent, and last 'npm' under skipInstall or the interactive choice.
\* A lockfile in dest overrides the option, and the user is prompted only when
\* every earlier source is undefined and skipInstall is not set.
C27_PackageManagerPrecedence ==
  packageManagerCalled =>
    IF pm.call.packageManager \notin {undefined, "npm", "yarn", "pnpm"}
    THEN /\ pm.error = "Invalid package manager choice"
         /\ pm.lookups = <<>>
         /\ cliPc = "failed"
    ELSE packageManagerPrecedence

\* The same with the empty text left out of the options that throw: for every
\* other option the sentence holds.
C27_ExceptEmptyOption ==
  packageManagerCalled =>
    IF pm.call.packageManager \notin {undefined, "", "npm", "yarn", "pnpm"}
    THEN /\ pm.error = "Invalid package manager choice"
         /\ pm.lookups = <<>>
         /\ cliPc = "failed"
    ELSE packageManagerPrecedence

\* the gitignore step of init has run
afterGitignoreStep ==
  cliPc \in {"packageManager", "install"} \/ packageManagerCalled

\* C28: after the gitignore step dest holds no file named gitignore;
\* .gitignore exists iff gitignore or .gitignore existed before; a .gitignore
\* that existed keeps its content (gitignore is deleted), and where only
\* gitignore existed its content is now .gitignore's. No other file changes.
C28_GitignoreStep ==
  afterGitignoreStep =>
    /\ ~pathExists(destFiles, "gitignore")
    /\ pathExists(destFiles, ".gitignore") <=>
         (pathExists(before, "gitignore") \/ pathExists(before, ".gitignore"))
    /\ pathExists(before, ".gitignore") =>
         destFiles[".gitignore"] = before[".gitignore"]
    /\ (pathExists(before, "gitignore") /\ ~pathExists(before, ".gitignore")) =>
         destFiles[".gitignore"] = before["gitignore"]
    /\ \A n \in (DOMAIN before \cup DOMAIN destFiles) \ {"gitignore", ".gitignore"} :
         /\ n \in DOMAIN before
         /\ n \in DOMAIN destFiles
         /\ destFiles[n] = before[n]

\* both files existed, with different contents, and the step has run
C28_Witness ==
  /\ afterGitignoreStep
  /\ pathExists(before, "gitignore")
  /\ pathExists(before, ".gitignore")
  /\ before["gitignore"] # before[".gitignore"]
  /\ destFiles[".gitignore"] = before[".gitignore"]

====
